---- MODULE Spec2Model ----
(***************************************************************************)
(* Model of the chatbot backend of UAVLogViewer: the session registry      *)
(* (SessionManager), the conversation history and the per-turn pipeline of *)
(* ChatbotService.processMessage with its validators, and the routes of    *)
(* routes/chatbot.js that drive them.                                      *)
(*                                                                         *)
(* A chat turn is an async function; each action below is the code that    *)
(* runs from the resumption after one await up to the next await.  Calls   *)
(* to the LLM provider and to the SQL engine are external: their results   *)
(* are drawn from small sets.  Response texts are identified by the turn   *)
(* and the getAIResponse call that produced them.                          *)
(*                                                                         *)
(* Spec follows one turn at a time together with the session routes and    *)
(* takes an upload as one step; HistSpec exercises addToHistory alone;     *)
(* ConcSpec lets chat requests overlap; IngestSpec follows an upload       *)
(* through LogDataProcessor and DuckDBService into the table store.        *)
(* NameSpec and DiscSpec apply getTableName and findDiscrepancies to       *)
(* bounded inputs; ToolSpec follows handleToolCalls; CacheSpec calls the   *)
(* methods of DocCacheService; ServiceSpec follows RAGService and the      *)
(* requests let in from the start of the process.  LiveSpec is Spec with   *)
(* every external call of a turn eventually returning; QuerySpec adds the  *)
(* SQL handed to the store by chat turns to IngestSpec; ValidationSpec     *)
(* applies validateAnswerQuality to bounded classifier outputs.            *)
(***************************************************************************)
EXTENDS Integers, Sequences, FiniteSets, TLC

----------------------------------------------------------------------------
(* Bounds of the model *)

MaxSessions == 2        \* sessions ever created
MaxTicks == 2           \* clock advances
MaxTurns == 1           \* chat requests
MaxAdds == 23           \* addToHistory calls in HistSpec
MaxToolSql == 1         \* queryData calls in one tool round
MaxQueries == 1         \* SQL statements quoted in one response
MaxOverlap == 2         \* chat requests in flight together in ConcSpec
MaxTypes == 2           \* message types in one uploaded log
MaxRows == 2            \* time keys of one time-series message

(* Program constants *)

maxRetries == 3                     \* AnswerValidator.maxRetries
HistoryLimit == 20                  \* addToHistory window
maxAge == 24 * 60 * 60 * 1000       \* validateSession / cleanupOldSessions, ms
PromptWindow == 5                   \* buildPrompt: history entries put in a prompt

TickMs == maxAge                    \* granularity of the model clock, ms

Ids == 1..MaxSessions

----------------------------------------------------------------------------
VARIABLES
    now,                  \* Date.now(), ms since process start
    sessionCounter,       \* SessionManager.sessionCounter
    sessions,             \* SessionManager.sessions : Map id -> session
    conversationHistory,  \* ChatbotService.conversationHistory : Map id -> list
    added,                \* history: every entry ever passed to addToHistory, per id
    turn,                 \* the processMessage call in flight (locals + position)
    turnNo,               \* number of chat requests so far
    resp,                 \* the HTTP response this step sent, if it sent one
    reqs,                 \* ConcSpec: the processMessage calls in flight, per slot
    tables,               \* DuckDBService.db : table name -> table
    processedTables,      \* LogDataProcessor.processedTables : message type -> table name
    ingest,               \* the processLogData call in flight (locals + position)
    call,                 \* the call of a pure function under check (argument, result)
    toolRun,              \* the handleToolCalls call in flight (locals + position)
    docCache,             \* DocCacheService: cache, isInitialized, and the cache file on disk
    rag,                  \* RAGService: its fields and the calls of it in flight
    startup               \* process start: ChatbotService.initialize and the requests let in

vars == <<now, sessionCounter, sessions, conversationHistory, added, turn, turnNo, resp,
          reqs, tables, processedTables, ingest, call, toolRun, docCache, rag, startup>>

\* the state of the services modelled apart from the chat and upload paths
aside == <<call, toolRun, docCache, rag, startup>>

\* the state the single-turn pipeline and the history calls below leave alone
elsewhere == <<reqs, tables, processedTables, ingest, aside>>

\* no request let in yet, LogDataProcessor.isInitialized false
NoStartup == [processorInitialized |-> FALSE, requests |-> 0, saw |-> "none",
              sessionMade |-> FALSE]

\* the callers of RAGService.initialize: ChatbotService.initialize at process
\* start, POST /docs/refresh, and searchRelevantDocs for a chat request
RagProcs == {"start", "refresh", "search"}

IdleRun ==
    [pc |-> "idle", calls |-> 0, fresh |-> "none", i |-> 0,
     chunk |-> [content |-> "", type |-> ""], embeddingsArray |-> << >>,
     unchanged |-> FALSE, cachedThen |-> << >>, requested |-> 0,
     sawInitialized |-> TRUE, finished |-> FALSE, indexAtEnd |-> << >>,
     seen |-> {}, outcome |-> "none"]

NewRag ==
    [isInitialized |-> FALSE, documentChunks |-> << >>, embeddingsCache |-> << >>,
     freshContent |-> "none", runs |-> [p \in RagProcs |-> IdleRun]]

NewDocCache ==
    [loaded |-> FALSE, docs |-> << >>, isInitialized |-> FALSE,
     file |-> [state |-> "absent", docs |-> << >>]]

IdleToolRun ==
    [pc |-> "idle", toolCalls |-> << >>, i |-> 0, toolResults |-> << >>,
     executed |-> << >>, messages |-> << >>, returned |-> "none"]

NoCall == [fn |-> "none"]

----------------------------------------------------------------------------
(* Texts *)

NoText == [id |-> 0, src |-> "none"]
Text(n, k) == [id |-> n, src |-> k]

Entry(role, content) == [role |-> role, content |-> content]

----------------------------------------------------------------------------
(* SessionManager *)

createSession(ss, id, t) ==
    [x \in DOMAIN ss \cup {id} |->
        IF x = id THEN [createdAt |-> t, lastAccessed |-> t, logData |-> "log"]
        ELSE ss[x]]

\* getSession touches lastAccessed of a session that exists
getSession(ss, id, t) ==
    IF id \in DOMAIN ss THEN [ss EXCEPT ![id].lastAccessed = t] ELSE ss

updateSession(ss, id, logData, t) ==
    IF id \in DOMAIN ss
    THEN [ss EXCEPT ![id].logData = logData, ![id].lastAccessed = t]
    ELSE ss

removeSession(ss, id) == [x \in DOMAIN ss \ {id} |-> ss[x]]

----------------------------------------------------------------------------
(* ChatbotService.addToHistory *)

addToHistory_keepOldest(h, role, content) ==
    LET h2 == Append(h, Entry(role, content))
    IN  IF Len(h2) > HistoryLimit THEN SubSeq(h2, 1, HistoryLimit) ELSE h2

addToHistory(h, role, content) ==
    LET h2 == Append(h, Entry(role, content))
    IN  IF Len(h2) > HistoryLimit
        THEN SubSeq(h2, Len(h2) - HistoryLimit + 1, Len(h2))
        ELSE h2

\* the Map after addToHistory(sessionId, role, content): a missing key is created
HistoryMapAdd(m, id, role, content) ==
    LET h == IF id \in DOMAIN m THEN m[id] ELSE <<>>
    IN  [x \in DOMAIN m \cup {id} |->
            IF x = id THEN addToHistory(h, role, content) ELSE m[x]]

AddedMapAdd(m, id, role, content) ==
    LET h == IF id \in DOMAIN m THEN m[id] ELSE <<>>
    IN  [x \in DOMAIN m \cup {id} |->
            IF x = id THEN Append(h, Entry(role, content)) ELSE m[x]]

----------------------------------------------------------------------------
(* AnswerValidator *)

Outcomes == {"ANSWER", "CLARIFICATION", "REASONING", "VAGUE"}

\* what the injection detector's completion can be: parsed JSON, or a failure
DetectorOutputs ==
    [ok : {TRUE}, isSuspicious : BOOLEAN, riskLevel : {"LOW", "HIGH"}]
    \cup {[ok |-> FALSE, isSuspicious |-> FALSE, riskLevel |-> "LOW"]}

\* part_001 lines 134-195: the parsed verdict, or the fallback of the catch
\* block when the completion fails or its content is not JSON
detectPromptInjection_failClosed(raw) ==
    IF raw.ok
    THEN [isSuspicious |-> raw.isSuspicious, riskLevel |-> raw.riskLevel]
    ELSE [isSuspicious |-> TRUE, riskLevel |-> "HIGH"]

detectPromptInjection(raw) ==
    IF raw.ok
    THEN [isSuspicious |-> raw.isSuspicious, riskLevel |-> raw.riskLevel]
    ELSE [isSuspicious |-> FALSE, riskLevel |-> "LOW"]

\* what the classifier's completion can be: parsed JSON, or a failure
ClassifierOutputs ==
    {[ok |-> TRUE, responseType |-> o, isValidAnswer |-> o \in {"ANSWER", "CLARIFICATION"}] :
        o \in Outcomes \cup {"absent"}}
    \cup {[ok |-> FALSE, responseType |-> "absent", isValidAnswer |-> FALSE]}

NoValidation == [outcome |-> "none", isValid |-> FALSE, parsedContent |-> FALSE]

validateAnswerQuality(raw) ==
    IF raw.ok
    THEN [outcome |-> IF raw.responseType = "absent" THEN "UNKNOWN" ELSE raw.responseType,
          isValid |-> raw.isValidAnswer,
          parsedContent |-> TRUE]
    ELSE [outcome |-> "none", isValid |-> TRUE, parsedContent |-> FALSE]

----------------------------------------------------------------------------
(* ChatbotService.parseAIResponse: which extraction gives finalAnswer *)

NoAnswer == [src |-> NoText, form |-> "none"]

parseAIResponse(response, validationResult) ==
    IF validationResult.parsedContent /\ validationResult.outcome = "CLARIFICATION"
        THEN [src |-> response, form |-> "clarification"]
    ELSE IF validationResult.parsedContent /\ validationResult.outcome = "ANSWER"
        THEN [src |-> response, form |-> "answer"]
    ELSE IF validationResult.parsedContent /\ validationResult.outcome = "REASONING"
        THEN [src |-> response, form |-> "sentence"]
    ELSE [src |-> response, form |-> "raw"]

----------------------------------------------------------------------------
(* The turn: locals of processMessage and bookkeeping of what it did *)

NoQueryValidation == [totalQueries |-> 0, validQueries |-> 0, queriesWithDiscrepancies |-> 0]

NoResult == [kind |-> "none", response |-> NoAnswer,
             correctionAttempts |-> 0, wasCorrected |-> FALSE,
             originalResponse |-> NoText, hasDiscrepancies |-> FALSE]

IdleTurn ==
    [pc |-> "idle", sid |-> 0, userMessage |-> NoText, stage |-> "none",
     response |-> NoText, finalResponse |-> NoText, finalAnswer |-> NoAnswer,
     validationResult |-> NoQueryValidation,
     answerValidation |-> NoValidation,
     answerCorrectionAttempts |-> 0,
     injectionSuspicious |-> FALSE,
     detectionFailed |-> FALSE,
     llmCalls |-> 0, toolRounds |-> 0, sqlRan |-> FALSE, qcCalls |-> 0,
     classifiedOk |-> {},
     adds |-> <<>>,
     result |-> NoResult]

NoResp == [op |-> "none", sid |-> 0, status |-> 0, valid |-> FALSE]

\* a processMessage call of ConcSpec that has not started
IdleReq == [pc |-> "idle", no |-> 0, sid |-> 0, userMessage |-> NoText,
            prompt |-> << >>, response |-> NoText, kind |-> "none"]

Slots == 1..MaxOverlap

\* no processLogData call in flight
IdleIngest == [pc |-> "idle", src |-> 0, log |-> << >>, i |-> 0,
               processed |-> << >>, errors |-> << >>]

----------------------------------------------------------------------------
Init ==
    /\ now = 0
    /\ sessionCounter = 0
    /\ sessions = << >>
    /\ conversationHistory = << >>
    /\ added = << >>
    /\ turn = IdleTurn
    /\ turnNo = 0
    /\ resp = NoResp
    /\ reqs = [s \in Slots |-> IdleReq]
    /\ tables = << >>
    /\ processedTables = << >>
    /\ ingest = IdleIngest
    /\ call = NoCall
    /\ toolRun = IdleToolRun
    /\ docCache = NewDocCache
    /\ rag = NewRag
    /\ startup = NoStartup

\* time passes
Tick ==
    /\ now < MaxTicks * TickMs
    /\ now' = now + TickMs
    /\ UNCHANGED <<sessionCounter, sessions, conversationHistory, added, turn, turnNo>>
    /\ resp' = NoResp
    /\ UNCHANGED elsewhere

----------------------------------------------------------------------------
(* POST /chatbot/init -> ChatbotService.initializeSession *)

InitializeSession ==
    /\ sessionCounter < MaxSessions
    /\ \E processed \in BOOLEAN :          \* processLogData returned / threw
        IF processed
        THEN LET id == sessionCounter + 1 IN
             /\ sessionCounter' = id
             /\ sessions' = createSession(sessions, id, now)
             /\ conversationHistory' =
                    [x \in DOMAIN conversationHistory \cup {id} |->
                        IF x = id THEN <<>> ELSE conversationHistory[x]]
             /\ resp' = [NoResp EXCEPT !.op = "init", !.sid = id, !.status = 200]
             /\ UNCHANGED <<now, added, turn, turnNo>>
        ELSE /\ resp' = [NoResp EXCEPT !.op = "init", !.status = 500]
             /\ UNCHANGED <<now, sessionCounter, sessions, conversationHistory,
                            added, turn, turnNo>>
    /\ UNCHANGED elsewhere

----------------------------------------------------------------------------
(* GET /chatbot/sessions/:sessionId/validate -> ChatbotService.validateSession *)

\* the age test of validateSession
TooOld_byIdle(session, t) == t - session.lastAccessed > maxAge

TooOld(session, t) == t - session.createdAt > maxAge

\* the registry after validateSession(id) at time t
validateSession(ss, id, t) ==
    IF id \notin DOMAIN ss THEN ss
    ELSE LET touched == getSession(ss, id, t) IN
         IF TooOld(touched[id], t)
         THEN removeSession(touched, id)
         ELSE updateSession(touched, id, "undefined", t)

\* what validateSession(id) returns: the session (TRUE) or null (FALSE)
validateSessionResult(ss, id, t) ==
    /\ id \in DOMAIN ss
    /\ ~TooOld(getSession(ss, id, t)[id], t)

ValidateRoute ==
    \E id \in Ids :
        /\ sessions' = validateSession(sessions, id, now)
        /\ resp' =
            [op |-> "validate", sid |-> id,
             status |-> IF validateSessionResult(sessions, id, now) THEN 200 ELSE 404,
             valid |-> validateSessionResult(sessions, id, now)]
        /\ UNCHANGED <<now, sessionCounter, conversationHistory, added, turn, turnNo>>
        /\ UNCHANGED elsewhere

----------------------------------------------------------------------------
(* ChatbotService.processMessage, the continuations shared by its steps *)

\* line 65: the branch that refuses the turn
IsSuspicious_highRiskOnly(injectionDetection) ==
    injectionDetection.isSuspicious /\ injectionDetection.riskLevel = "HIGH"

IsSuspicious(injectionDetection) == injectionDetection.isSuspicious

\* line 158: the branch that asks for an answer-shape correction
NeedsAnswerCorrection(answerValidation, attempts) ==
    ~answerValidation.isValid /\ attempts < maxRetries

\* line 176: the corrected response is classified again
NeedsRevalidation(attempts) == attempts < maxRetries

\* line 193: the branch that asks for a query-discrepancy correction
NeedsQueryCorrection_always(validationResult) ==
    validationResult.queriesWithDiscrepancies >= 0

NeedsQueryCorrection(validationResult) ==
    validationResult.queriesWithDiscrepancies > 0

\* handleToolCalls, lines 752-757: the follow-up completion is sent without
\* tools, so its message cannot carry tool_calls
FollowUpOffersTools_yes == TRUE

FollowUpOffersTools == FALSE

\* lines 228-248: the normal return
Emit(t) ==
    [t EXCEPT !.pc = "done",
              !.result = [kind |-> "emit",
                          response |-> t.finalAnswer,
                          correctionAttempts |-> t.answerCorrectionAttempts,
                          wasCorrected |-> t.answerCorrectionAttempts > 0,
                          originalResponse |-> IF t.answerCorrectionAttempts > 0
                                               THEN t.response ELSE NoText,
                          hasDiscrepancies |->
                              t.validationResult.queriesWithDiscrepancies > 0]]

\* lines 250-269: the catch block
Fail_uncaught(t) == [t EXCEPT !.pc = "thrown"]

Fail(t) ==
    [t EXCEPT !.pc = "done",
              !.result = [NoResult EXCEPT !.kind = "error",
                                          !.response = [src |-> NoText, form |-> "error"]]]

\* lines 54-58 and 68-76: the early returns
Terminal(t, kind) ==
    [t EXCEPT !.pc = "done",
              !.result = [NoResult EXCEPT !.kind = kind,
                                          !.response = [src |-> NoText, form |-> kind]]]

\* starting a getAIResponse call (one chat completion is sent)
CallAI(t, stage) ==
    [t EXCEPT !.pc = "llm", !.stage = stage, !.llmCalls = @ + 1,
              !.qcCalls = IF stage = "qc" THEN @ + 1 ELSE @]

\* lines 193-219, entered once the answer-shape corrections are over
QueryCorrectionStep(t) ==
    IF NeedsQueryCorrection(t.validationResult) THEN CallAI(t, "qc") ELSE Emit(t)

\* what processMessage does with the text a getAIResponse call returned; the
\* classifier verdict is a local that is not read again after the parse of the
\* corrected text, and is cleared there
AfterAIResponse(t, text) ==
    CASE t.stage = "main" ->
            \* line 136, then validateResponse(response) is started
            [t EXCEPT !.response = text, !.pc = "validate"]
      [] t.stage = "ac1" ->
            \* lines 165-177
            LET t1 == [t EXCEPT !.finalResponse = text,
                                !.finalAnswer = parseAIResponse(text, t.answerValidation),
                                !.answerCorrectionAttempts = @ + 1,
                                !.answerValidation = NoValidation]
            IN  IF NeedsRevalidation(t1.answerCorrectionAttempts)
                THEN [t1 EXCEPT !.pc = "revalidate", !.llmCalls = @ + 1]
                ELSE QueryCorrectionStep(t1)
      [] t.stage = "ac2" ->
            \* lines 181-188; answerValidation holds the revalidation here
            QueryCorrectionStep(
                [t EXCEPT !.finalResponse = text,
                          !.finalAnswer = parseAIResponse(text, t.answerValidation),
                          !.answerCorrectionAttempts = @ + 1,
                          !.answerValidation = NoValidation])
      [] OTHER ->
            \* lines 211-217: validationResult carries no parsedContent
            Emit([t EXCEPT !.finalResponse = text,
                           !.finalAnswer = parseAIResponse(text, NoValidation)])

----------------------------------------------------------------------------
(* POST /chatbot/chat -> ChatbotService.processMessage, step by step *)

\* lines 49-63: session lookup, then the injection detector is called
ChatRequest ==
    /\ turn.pc = "idle"
    /\ turnNo < MaxTurns
    /\ \E id \in Ids :
        /\ turnNo' = turnNo + 1
        /\ sessions' = getSession(sessions, id, now)
        /\ turn' = IF id \in DOMAIN sessions
                   THEN [IdleTurn EXCEPT !.pc = "inject", !.sid = id,
                                         !.userMessage = Text(turnNo + 1, "user"),
                                         !.llmCalls = 1]
                   ELSE Terminal([IdleTurn EXCEPT !.sid = id,
                                      !.userMessage = Text(turnNo + 1, "user")],
                                 "notfound")
    /\ UNCHANGED <<now, sessionCounter, conversationHistory, added>>
    /\ resp' = NoResp
    /\ UNCHANGED elsewhere

\* lines 63-83: the detector answered; refuse, or record the user message
InjectionReturn ==
    /\ turn.pc = "inject"
    /\ \E raw \in DetectorOutputs :
        IF IsSuspicious(detectPromptInjection(raw))
        THEN /\ turn' = Terminal([turn EXCEPT !.injectionSuspicious =
                                        detectPromptInjection(raw).isSuspicious,
                                                !.detectionFailed = ~raw.ok],
                                  "refusal")
             /\ UNCHANGED <<conversationHistory, added>>
        ELSE /\ conversationHistory' =
                    HistoryMapAdd(conversationHistory, turn.sid, "user", turn.userMessage)
             /\ added' = AddedMapAdd(added, turn.sid, "user", turn.userMessage)
             /\ turn' = [turn EXCEPT !.pc = "context",
                                     !.injectionSuspicious =
                                        detectPromptInjection(raw).isSuspicious,
                                     !.detectionFailed = ~raw.ok,
                                     !.adds = Append(@, Entry("user", turn.userMessage))]
    /\ UNCHANGED <<now, sessionCounter, sessions, turnNo>>
    /\ resp' = NoResp
    /\ UNCHANGED elsewhere

\* lines 83-136: documents, schema and tables fetched (none of them throws),
\* the prompt is built and the main getAIResponse call is made
ContextReturn ==
    /\ turn.pc = "context"
    /\ turn' = CallAI(turn, "main")
    /\ UNCHANGED <<now, sessionCounter, sessions, conversationHistory, added, turnNo>>
    /\ resp' = NoResp
    /\ UNCHANGED elsewhere

\* getAIResponse, lines 566-596: the first completion of a call came back
AIReturn ==
    /\ turn.pc = "llm"
    /\ \/ \E text \in {Text(turnNo, turn.stage)} :          \* content, no tool calls
            turn' = AfterAIResponse(turn, text)
       \/ \E nSql \in 0..MaxToolSql :                       \* tool calls: handleToolCalls
            turn' = [turn EXCEPT !.pc = "tools",
                                 !.toolRounds = @ + 1,
                                 !.sqlRan = @ \/ nSql > 0,
                                 !.llmCalls = @ + 1]
       \/ turn' = Fail(turn)                                \* the call threw
    /\ UNCHANGED <<now, sessionCounter, sessions, conversationHistory, added, turnNo>>
    /\ resp' = NoResp
    /\ UNCHANGED elsewhere

\* handleToolCalls, lines 752-759: the follow-up completion came back
ToolFollowUpReturn ==
    /\ turn.pc = "tools"
    /\ \E r \in {"text", "fail"} \cup (IF FollowUpOffersTools THEN {"tools"} ELSE {}) :
        turn' = CASE r = "text" -> AfterAIResponse(turn, Text(turnNo, turn.stage))
                  [] r = "fail" -> Fail(turn)
                  [] OTHER -> [turn EXCEPT !.toolRounds = @ + 1, !.llmCalls = @ + 1]
    /\ UNCHANGED <<now, sessionCounter, sessions, conversationHistory, added, turnNo>>
    /\ resp' = NoResp
    /\ UNCHANGED elsewhere

\* lines 140-152: validateResponse re-ran the quoted SQL; the response is put
\* into the history and the answer classifier is called
ValidateReturn ==
    /\ turn.pc = "validate"
    /\ \E nq \in 0..MaxQueries : \E nd \in 0..nq :
        /\ conversationHistory' =
                HistoryMapAdd(conversationHistory, turn.sid, "assistant", turn.response)
        /\ added' = AddedMapAdd(added, turn.sid, "assistant", turn.response)
        /\ turn' = [turn EXCEPT
                !.pc = "classify",
                !.validationResult = [totalQueries |-> nq, validQueries |-> nq - nd,
                                      queriesWithDiscrepancies |-> nd],
                !.sqlRan = @ \/ nq > 0,
                !.adds = Append(@, Entry("assistant", turn.response)),
                !.finalResponse = turn.response,
                !.llmCalls = @ + 1]
    /\ UNCHANGED <<now, sessionCounter, sessions, turnNo>>
    /\ resp' = NoResp
    /\ UNCHANGED elsewhere

\* lines 152-165: the classifier answered for the original response
ClassifyReturn ==
    /\ turn.pc = "classify"
    /\ \E raw \in ClassifierOutputs :
        LET av == validateAnswerQuality(raw)
            t1 == [turn EXCEPT
                    !.answerValidation = av,
                    !.finalAnswer = parseAIResponse(turn.response, av),
                    !.classifiedOk = IF av.outcome \in {"ANSWER", "CLARIFICATION"}
                                     THEN @ \cup {turn.response} ELSE @]
        IN  turn' = IF NeedsAnswerCorrection(av, t1.answerCorrectionAttempts)
                    THEN CallAI(t1, "ac1")
                    ELSE QueryCorrectionStep([t1 EXCEPT !.answerValidation = NoValidation])
    /\ UNCHANGED <<now, sessionCounter, sessions, conversationHistory, added, turnNo>>
    /\ resp' = NoResp
    /\ UNCHANGED elsewhere

\* lines 177-181: the classifier answered for the first corrected response
RevalidateReturn ==
    /\ turn.pc = "revalidate"
    /\ \E raw \in ClassifierOutputs :
        LET rv == validateAnswerQuality(raw)
            t1 == [turn EXCEPT
                    !.classifiedOk = IF rv.outcome \in {"ANSWER", "CLARIFICATION"}
                                     THEN @ \cup {turn.finalResponse} ELSE @]
        IN  turn' = IF ~rv.isValid
                    THEN CallAI([t1 EXCEPT !.answerValidation = rv], "ac2")
                    ELSE QueryCorrectionStep(t1)
    /\ UNCHANGED <<now, sessionCounter, sessions, conversationHistory, added, turnNo>>
    /\ resp' = NoResp
    /\ UNCHANGED elsewhere

\* routes/chatbot.js lines 120-126: the result is sent, always with status 200
ChatRespond ==
    /\ turn.pc = "done"
    /\ resp' = [NoResp EXCEPT !.op = "chat", !.sid = turn.sid, !.status = 200]
    /\ turn' = IdleTurn
    /\ UNCHANGED <<now, sessionCounter, sessions, conversationHistory, added, turnNo>>
    /\ UNCHANGED elsewhere

----------------------------------------------------------------------------
Next ==
    \/ Tick
    \/ InitializeSession
    \/ ValidateRoute
    \/ ChatRequest
    \/ InjectionReturn
    \/ ContextReturn
    \/ AIReturn
    \/ ToolFollowUpReturn
    \/ ValidateReturn
    \/ ClassifyReturn
    \/ RevalidateReturn
    \/ ChatRespond

Spec == Init /\ [][Next]_vars

----------------------------------------------------------------------------
(* addToHistory on its own: the calls processMessage makes on one session,  *)
(* a user message and, after a user message, possibly the assistant reply. *)

HistInit ==
    /\ now = 0
    /\ sessionCounter = 1
    /\ sessions = createSession(<< >>, 1, 0)
    /\ conversationHistory = [x \in {1} |-> << >>]
    /\ added = [x \in {1} |-> << >>]
    /\ turn = IdleTurn
    /\ turnNo = 0
    /\ resp = NoResp
    /\ reqs = [s \in Slots |-> IdleReq]
    /\ tables = << >>
    /\ processedTables = << >>
    /\ ingest = IdleIngest
    /\ call = NoCall
    /\ toolRun = IdleToolRun
    /\ docCache = NewDocCache
    /\ rag = NewRag
    /\ startup = NoStartup

AddToHistoryCall ==
    \E id \in DOMAIN conversationHistory :
        /\ Len(added[id]) < MaxAdds
        /\ \E role \in (IF Len(added[id]) > 0 /\ added[id][Len(added[id])].role = "user"
                        THEN {"user", "assistant"} ELSE {"user"}) :
            LET content == Text(Len(added[id]) + 1, role) IN
            /\ conversationHistory' = HistoryMapAdd(conversationHistory, id, role, content)
            /\ added' = AddedMapAdd(added, id, role, content)
        /\ UNCHANGED <<now, sessionCounter, sessions, turn, turnNo, resp>>
        /\ UNCHANGED elsewhere

HistNext == AddToHistoryCall

HistSpec == HistInit /\ [][HistNext]_vars

----------------------------------------------------------------------------
(* Properties *)

TurnDone == turn.pc = "done"
Emitted == TurnDone /\ turn.result.kind = "emit"

\* C1: when the injection detector classifies the user message as suspicious,
\* the turn ends at once with the fixed refusal: nothing was appended to the
\* history, the detector call is the only LLM call (no main-model call, no
\* tool round) and no SQL was executed.
C1_RefusalSkipsPipeline ==
    turn.injectionSuspicious =>
        /\ TurnDone
        /\ turn.result.kind = "refusal"
        /\ turn.result.response = [src |-> NoText, form |-> "refusal"]
        /\ turn.adds = << >>
        /\ turn.llmCalls = 1
        /\ turn.toolRounds = 0
        /\ ~turn.sqlRan

C1_Witness ==
    /\ turn.injectionSuspicious
    /\ TurnDone
    /\ turn.sid \in DOMAIN conversationHistory

\* C2: a completed turn has appended exactly one (user, assistant) pair, and
\* the assistant entry holds the text the turn ended with: the corrected text
\* when a correction was made, not the original response.
C2_OnePairWithFinalText ==
    Emitted =>
        turn.adds = << Entry("user", turn.userMessage),
                       Entry("assistant", turn.finalResponse) >>

\* the last n entries of a sequence
LastN(q, n) == IF Len(q) <= n THEN q ELSE SubSeq(q, Len(q) - n + 1, Len(q))

\* C3: after any sequence of addToHistory calls a session's history has at
\* most 20 entries, and they are the 20 most recently added entries in the
\* order they were added.
C3_HistoryWindow ==
    \A id \in DOMAIN conversationHistory :
        /\ Len(conversationHistory[id]) <= 20
        /\ conversationHistory[id] =
              LastN(IF id \in DOMAIN added THEN added[id] ELSE << >>, 20)

C3_Witness ==
    \E id \in DOMAIN conversationHistory :
        /\ id \in DOMAIN added
        /\ Len(added[id]) > 21
        /\ Len(conversationHistory[id]) = 20

\* C4: the chat-completion calls of one turn (injection check, main calls with
\* their tool follow-ups, answer-shape checks, correction calls) number at
\* most Ka + Kq + H + 2 = 3 + 1 + 4 + 2 = 10.
C4_AtMostTenCalls == turn.llmCalls <= 10

\* C4 as amended: they number at most 11: the injection check, two answer-shape
\* checks and four getAIResponse calls of at most two completions each.
C4_AtMostElevenCalls == turn.llmCalls <= 11

C4_Witness == Emitted /\ turn.llmCalls = 11

\* C5: the tool-call rounds of one turn, counted over the initial call and
\* every correction call, never exceed H = 4.
C5_ToolRoundsBounded == turn.toolRounds <= 4

C5_Witness == Emitted /\ turn.toolRounds = 4

\* C6: a turn that ends by emitting an answer emits a text the classifier
\* classified as ANSWER or CLARIFICATION, or else the answer-correction budget
\* Ka = maxRetries was used up and correctionAttempts in the result shows it.
C6_EmittedTextClassified ==
    Emitted =>
        \/ turn.result.response.src \in turn.classifiedOk
        \/ /\ turn.answerCorrectionAttempts >= maxRetries
           /\ turn.result.correctionAttempts = turn.answerCorrectionAttempts

\* C7: a turn makes at most one query-discrepancy correction call, and only
\* when validateResponse reported queriesWithDiscrepancies > 0; when it was
\* made, the emitted answer is taken from the corrected response; a step that
\* finds a discrepancy never ends the turn with the error answer.
C7_QueryCorrection ==
    /\ [](/\ turn.qcCalls <= 1
          /\ turn.qcCalls = 1 => turn.validationResult.queriesWithDiscrepancies > 0
          /\ (Emitted /\ turn.qcCalls = 1) =>
                /\ turn.result.response.src = Text(turnNo, "qc")
                /\ turn.finalResponse = Text(turnNo, "qc"))
    /\ [][(turn.pc = "validate" /\ turn'.pc # "validate")
            => turn'.result.kind # "error"]_vars

C7_Witness ==
    /\ Emitted
    /\ turn.qcCalls = 1
    /\ turn.validationResult.queriesWithDiscrepancies > 0

\* C8: a text is handed to the answer classifier only after query validation
\* of that text reported no discrepancy, and when query validation reports a
\* discrepancy with the query-correction budget unused the next step is the
\* query-correction call.
C8_ValidateBeforeClassify ==
    [][/\ (turn'.pc \in {"classify", "revalidate"} /\ turn'.pc # turn.pc)
            => /\ turn'.finalResponse = turn'.response
               /\ turn'.validationResult.queriesWithDiscrepancies = 0
       /\ (turn.pc = "validate" /\ turn'.pc # "validate"
           /\ turn'.validationResult.queriesWithDiscrepancies > 0
           /\ turn.qcCalls = 0)
            => (turn'.pc = "llm" /\ turn'.stage = "qc")]_vars

\* C9: eviction goes by idle time: a session is removed only when its last
\* access lies more than the TTL back, and a session whose last access lies
\* more than the TTL back is not served a chat turn.
C9_EvictionByIdleTime ==
    [][/\ \A id \in DOMAIN sessions :
            id \notin DOMAIN sessions' => now - sessions[id].lastAccessed > maxAge
       /\ (turn.pc = "idle" /\ turn'.pc = "inject")
            => now - sessions[turn'.sid].lastAccessed <= maxAge]_vars

\* C10: the validate route answers 200 with valid: true exactly when the id
\* names a session that exists and has not expired (last access within the
\* TTL), and 404 with valid: false otherwise.
C10_ValidateStatus ==
    [][resp'.op = "validate" =>
        LET id == resp'.sid
            live == /\ id \in DOMAIN sessions
                    /\ now - sessions[id].lastAccessed <= maxAge
        IN  /\ (resp'.status = 200 /\ resp'.valid) <=> live
            /\ ~live => (resp'.status = 404 /\ ~resp'.valid)]_vars

\* C11: a chat request whose sessionId is unknown (never created, or removed
\* after its time to live) is answered with status 404, and the turn made no
\* LLM call and appended nothing to any history.
C11_UnknownSessionIs404 ==
    [][(resp'.op = "chat" /\ turn.result.kind = "notfound") =>
          /\ resp'.status = 404
          /\ turn.llmCalls = 0
          /\ turn.adds = << >>]_vars

\* C15: a turn that ends with the error answer leaves the session history as
\* it was before the turn: the turn appended nothing (no lone user message).
C15_ErrorLeavesHistory ==
    (TurnDone /\ turn.result.kind = "error") => turn.adds = << >>

----------------------------------------------------------------------------
(* Overlapping chat requests: processMessage is an async function and the   *)
(* service holds no lock, so a second call can run between any two awaits  *)
(* of the first.  Each slot is one call; only the part of processMessage   *)
(* that reads or writes the history is followed (lines 49-143): what comes *)
(* after line 143 changes neither the history nor the prompt already sent. *)

\* buildPrompt, lines 423-430: the history entries copied into the prompt
buildPrompt(sessionHistory) ==
    IF Len(sessionHistory) > PromptWindow
    THEN SubSeq(sessionHistory, Len(sessionHistory) - PromptWindow + 1, Len(sessionHistory))
    ELSE sessionHistory

ConcInit ==
    /\ now = 0
    /\ sessionCounter = 1
    /\ sessions = createSession(<< >>, 1, 0)
    /\ conversationHistory = [x \in {1} |-> << >>]
    /\ added = [x \in {1} |-> << >>]
    /\ turn = IdleTurn
    /\ turnNo = 0
    /\ resp = NoResp
    /\ reqs = [s \in Slots |-> IdleReq]
    /\ tables = << >>
    /\ processedTables = << >>
    /\ ingest = IdleIngest
    /\ call = NoCall
    /\ toolRun = IdleToolRun
    /\ docCache = NewDocCache
    /\ rag = NewRag
    /\ startup = NoStartup

\* lines 50-63: a request arrives; session lookup, then the detector is awaited
ReqStart(s) ==
    /\ reqs[s].pc = "idle"
    /\ turnNo < MaxOverlap
    /\ \E id \in Ids :
        /\ turnNo' = turnNo + 1
        /\ sessions' = getSession(sessions, id, now)
        /\ reqs' = [reqs EXCEPT ![s] =
                [IdleReq EXCEPT !.no = turnNo + 1, !.sid = id,
                                !.userMessage = Text(turnNo + 1, "user"),
                                !.pc = IF id \in DOMAIN sessions THEN "inject" ELSE "done",
                                !.kind = IF id \in DOMAIN sessions THEN "none"
                                         ELSE "notfound"]]
    /\ UNCHANGED aside
    /\ UNCHANGED <<now, sessionCounter, conversationHistory, added, turn,
                   tables, processedTables, ingest>>
    /\ resp' = NoResp

\* lines 63-83: the detector answered; refuse, or record the user message
ReqInjection(s) ==
    /\ reqs[s].pc = "inject"
    /\ \E raw \in DetectorOutputs :
        IF IsSuspicious(detectPromptInjection(raw))
        THEN /\ reqs' = [reqs EXCEPT ![s].pc = "done", ![s].kind = "refusal"]
             /\ UNCHANGED <<conversationHistory, added>>
        ELSE /\ conversationHistory' =
                    HistoryMapAdd(conversationHistory, reqs[s].sid, "user",
                                  reqs[s].userMessage)
             /\ added' = AddedMapAdd(added, reqs[s].sid, "user", reqs[s].userMessage)
             /\ reqs' = [reqs EXCEPT ![s].pc = "context"]
    /\ UNCHANGED aside
    /\ UNCHANGED <<now, sessionCounter, sessions, turn, turnNo,
                   tables, processedTables, ingest>>
    /\ resp' = NoResp

\* lines 83-136: documents, schema and tables are back; the prompt is built
\* from the history as it is now and the main getAIResponse call is made
ReqContext(s) ==
    /\ reqs[s].pc = "context"
    /\ reqs' = [reqs EXCEPT ![s].pc = "llm",
                            ![s].prompt = buildPrompt(conversationHistory[reqs[s].sid])]
    /\ UNCHANGED aside
    /\ UNCHANGED <<now, sessionCounter, sessions, conversationHistory, added, turn,
                   turnNo, tables, processedTables, ingest>>
    /\ resp' = NoResp

\* line 136: getAIResponse returned its text, or threw (catch, lines 250-269)
ReqAI(s) ==
    /\ reqs[s].pc = "llm"
    /\ \E ok \in BOOLEAN :
        reqs' = IF ok
                THEN [reqs EXCEPT ![s].pc = "validate",
                                  ![s].response = Text(reqs[s].no, "main")]
                ELSE [reqs EXCEPT ![s].pc = "done", ![s].kind = "error"]
    /\ UNCHANGED aside
    /\ UNCHANGED <<now, sessionCounter, sessions, conversationHistory, added, turn,
                   turnNo, tables, processedTables, ingest>>
    /\ resp' = NoResp

\* lines 140-143: validateResponse returned; the response is put into the
\* history (the rest of the turn leaves the history alone)
ReqValidate(s) ==
    /\ reqs[s].pc = "validate"
    /\ conversationHistory' =
            HistoryMapAdd(conversationHistory, reqs[s].sid, "assistant", reqs[s].response)
    /\ added' = AddedMapAdd(added, reqs[s].sid, "assistant", reqs[s].response)
    /\ reqs' = [reqs EXCEPT ![s].pc = "done", ![s].kind = "answered"]
    /\ UNCHANGED aside
    /\ UNCHANGED <<now, sessionCounter, sessions, turn, turnNo,
                   tables, processedTables, ingest>>
    /\ resp' = NoResp

ConcNext ==
    \E s \in Slots :
        \/ ReqStart(s)
        \/ ReqInjection(s)
        \/ ReqContext(s)
        \/ ReqAI(s)
        \/ ReqValidate(s)

ConcSpec == ConcInit /\ [][ConcNext]_vars

\* the user message of slot s is directly followed by its own reply in h
OwnPairIn(s, h) ==
    \E i \in 1..(Len(h) - 1) :
        /\ h[i] = Entry("user", reqs[s].userMessage)
        /\ h[i + 1] = Entry("assistant", reqs[s].response)

\* C14: chat requests on one session that overlap in time leave the history
\* they would leave when run one after the other: every answered request has
\* its user message directly followed by its own assistant reply, and of two
\* answered requests on the same session the prompt of one contains the
\* completed pair of the other.
C14_TurnsSerialized ==
    /\ \A s \in Slots :
        reqs[s].kind = "answered" => OwnPairIn(s, conversationHistory[reqs[s].sid])
    /\ \A a, b \in Slots :
        (a # b /\ reqs[a].kind = "answered" /\ reqs[b].kind = "answered"
               /\ reqs[a].sid = reqs[b].sid) =>
            (OwnPairIn(a, reqs[b].prompt) \/ OwnPairIn(b, reqs[a].prompt))

----------------------------------------------------------------------------
(* Log ingestion: LogDataProcessor and DuckDBService.  One DuckDBService    *)
(* (variable tables) and one processedTables Map serve every session.      *)
(*                                                                         *)
(* Message-type and table names are sequences of characters, because the   *)
(* code works on their characters.  A value of an uploaded log is          *)
(* identified by the upload, message type, field and time key it sits at,  *)
(* together with its JavaScript type and, for a string, its characters.    *)

UpperCase == <<"A", "B", "C", "D", "E", "F", "G", "H", "I", "J", "K", "L", "M",
               "N", "O", "P", "Q", "R", "S", "T", "U", "V", "W", "X", "Y", "Z">>
LowerCase == <<"a", "b", "c", "d", "e", "f", "g", "h", "i", "j", "k", "l", "m",
               "n", "o", "p", "q", "r", "s", "t", "u", "v", "w", "x", "y", "z">>
Digits == {"0", "1", "2", "3", "4", "5", "6", "7", "8", "9"}

\* String.prototype.toLowerCase / toUpperCase
toLowerCase(str) ==
    [i \in 1..Len(str) |->
        IF \E k \in 1..26 : UpperCase[k] = str[i]
        THEN LowerCase[CHOOSE k \in 1..26 : UpperCase[k] = str[i]]
        ELSE str[i]]

toUpperCase(str) ==
    [i \in 1..Len(str) |->
        IF \E k \in 1..26 : LowerCase[k] = str[i]
        THEN UpperCase[CHOOSE k \in 1..26 : LowerCase[k] = str[i]]
        ELSE str[i]]

DataSuffix == <<"_", "d", "a", "t", "a">>

\* DuckDBService.getTableName
getTableName_keepClosing(messageType) ==
    LET lower == toLowerCase(messageType)
        opened == [i \in 1..Len(lower) |-> IF lower[i] = "[" THEN "_" ELSE lower[i]]
        plain == [i \in 1..Len(opened) |->
                    IF \/ \E k \in 1..26 : LowerCase[k] = opened[i]
                       \/ opened[i] \in Digits
                       \/ opened[i] = "_"
                    THEN opened[i] ELSE "_"]
    IN  plain \o DataSuffix

getTableName(messageType) ==
    LET lower == toLowerCase(messageType)
        opened == [i \in 1..Len(lower) |-> IF lower[i] = "[" THEN "_" ELSE lower[i]]
        closed == SelectSeq(opened, LAMBDA c : c # "]")
        plain == [i \in 1..Len(closed) |->
                    IF \/ \E k \in 1..26 : LowerCase[k] = closed[i]
                       \/ closed[i] \in Digits
                       \/ closed[i] = "_"
                    THEN closed[i] ELSE "_"]
    IN  plain \o DataSuffix

\* LogDataProcessor.getMessageTypeFromTable: replace('_data', '') takes out the
\* first occurrence only
getMessageTypeFromTable(tableName) ==
    LET hits == {i \in 1..Len(tableName) :
                    /\ i + Len(DataSuffix) - 1 <= Len(tableName)
                    /\ SubSeq(tableName, i, i + Len(DataSuffix) - 1) = DataSuffix}
        baseName == IF hits = {} THEN tableName
                    ELSE LET i == CHOOSE x \in hits : \A y \in hits : x <= y
                         IN  SubSeq(tableName, 1, i - 1)
                             \o SubSeq(tableName, i + Len(DataSuffix), Len(tableName))
    IN  toUpperCase(baseName)

\* message types of the uploads
ATT == <<"A", "T", "T">>
GPS0 == <<"G", "P", "S", "[", "0", "]">>
GPS_0 == <<"G", "P", "S", "_", "0">>
FILE == <<"F", "I", "L", "E">>
FNCE == <<"F", "N", "C", "E">>
PARM == <<"P", "A", "R", "M">>
POS == <<"P", "O", "S">>

\* processLogData, lines 52-67: the message types it passes over
skipTypes_noPOS == {FILE, FNCE, PARM}

skipTypes == {FILE, FNCE, PARM, POS}

(* Values *)

Null == [js |-> "null", src |-> 0, mt |-> << >>, field |-> "", key |-> 0, text |-> << >>]
Undefined ==
    [js |-> "undefined", src |-> 0, mt |-> << >>, field |-> "", key |-> 0, text |-> << >>]
Val(js, src, mt, field, key) ==
    [js |-> js, src |-> src, mt |-> mt, field |-> field, key |-> key, text |-> << >>]
Str(src, mt, field, key, text) ==
    [js |-> "string", src |-> src, mt |-> mt, field |-> field, key |-> key, text |-> text]

\* the strings of the uploads: a word, a word with an apostrophe, a word with
\* two apostrophes in a row
Word == <<"a">>
WordWithApostrophe == <<"a", "'", "a">>
WordWithTwoApostrophes == <<"a", "'", "'", "a">>

\* what a message holds under one field name: a mapping from time keys to
\* values, one value, or null
Mapping(m) == [kind |-> "map", m |-> m, v |-> Null]
Scalar(v) == [kind |-> "scalar", m |-> << >>, v |-> v]
NullContent == [kind |-> "null", m |-> << >>, v |-> Null]

TimeField == "time_boot_ms"

\* the messages the uploads are made of.  keys is Object.keys(messageData).
AllKeys == 1..MaxRows

TimeSeriesData(src, mt, roll, text) ==
    [keys |-> <<"Roll", TimeField, "Mode">>,
     val |-> [f \in {"Roll", TimeField, "Mode"} |->
                CASE f = "Roll" -> roll
                  [] f = TimeField ->
                        Mapping([k \in AllKeys |-> Val("number", src, mt, f, k)])
                  [] OTHER ->
                        Mapping([k \in AllKeys |-> Str(src, mt, f, k, text)])]]

MessageData(shape, src, mt) ==
    CASE shape = "dense" ->
            TimeSeriesData(src, mt,
                Mapping([k \in AllKeys |-> Val("number", src, mt, "Roll", k)]), Word)
      [] shape = "apostrophe" ->
            TimeSeriesData(src, mt,
                Mapping([k \in AllKeys |-> Val("number", src, mt, "Roll", k)]),
                WordWithApostrophe)
      [] shape = "twoApostrophes" ->
            TimeSeriesData(src, mt,
                Mapping([k \in AllKeys |-> Val("number", src, mt, "Roll", k)]),
                WordWithTwoApostrophes)
      [] shape = "sparseLast" ->
            TimeSeriesData(src, mt,
                Mapping([k \in AllKeys \ {MaxRows} |-> Val("number", src, mt, "Roll", k)]),
                Word)
      [] shape = "sparseFirst" ->
            TimeSeriesData(src, mt,
                Mapping([k \in AllKeys \ {1} |-> Val("number", src, mt, "Roll", k)]),
                Word)
      [] shape = "nullField" ->
            TimeSeriesData(src, mt, NullContent, Word)
      [] shape = "static" ->
            [keys |-> <<"Name", "Value">>,
             val |-> [f \in {"Name", "Value"} |->
                        IF f = "Name" THEN Scalar(Str(src, mt, f, 0, Word))
                        ELSE Scalar(Val("number", src, mt, f, 0))]]
      [] OTHER ->                                   \* "empty": an object without fields
            [keys |-> << >>, val |-> << >>]

\* which messages an upload can hold, by message type
ShapesOf(mt) ==
    CASE mt = ATT -> {"dense", "apostrophe", "twoApostrophes", "sparseLast",
                      "sparseFirst", "nullField", "static"}
      [] mt = GPS0 -> {"dense"}
      [] mt = GPS_0 -> {"dense", "sparseLast"}
      [] mt = FILE -> {"static"}
      [] mt = FNCE -> {"empty"}
      [] mt = PARM -> {"sparseLast"}
      [] OTHER -> {"dense"}

MessageTypes == {ATT, GPS0, GPS_0, FILE, FNCE, PARM, POS}

Entries(src) ==
    UNION {{[messageType |-> mt, data |-> MessageData(shape, src, mt)] :
                shape \in ShapesOf(mt)} : mt \in MessageTypes}

\* the uploads: logData without a messages object, or messages holding up to
\* MaxTypes message types (the keys of an object are distinct)
Logs(src) ==
    {[valid |-> FALSE, messages |-> << >>]}
    \cup {[valid |-> TRUE, messages |-> s] :
            s \in UNION {{q \in [1..n -> Entries(src)] :
                            \A i, j \in 1..n :
                                i < j => q[i].messageType # q[j].messageType} :
                         n \in 0..MaxTypes}}

(* DuckDBService: from a message to columns and rows *)

\* Object.keys of a mapping with integer-like keys: ascending
ObjectKeys(m) ==
    LET n == Cardinality(DOMAIN m)
    IN  CHOOSE s \in [1..n -> DOMAIN m] : \A i, j \in 1..n : i < j => s[i] < s[j]

\* messageData[field][key]
At(content, key) ==
    IF content.kind = "map" /\ key \in DOMAIN content.m THEN content.m[key] ELSE Undefined

NoSchema ==
    [threw |-> TRUE, messageType |-> << >>, timeKeys |-> << >>, dataFields |-> << >>,
     schema |-> << >>, recordCount |-> 0, isTimeSeries |-> FALSE]

ColumnType(sampleValue) == IF sampleValue.js = "number" THEN "REAL" ELSE "TEXT"

\* reading a property of null throws a TypeError
inferTableSchema(messageType, messageData) ==
    LET fields == messageData.keys
        isTimeSeries == \E i \in 1..Len(fields) : fields[i] = TimeField
    IN  IF isTimeSeries
        THEN LET dataFields == SelectSeq(fields, LAMBDA f : f # TimeField)
                 threw == \E i \in 1..Len(fields) : messageData.val[fields[i]].kind = "null"
             IN  IF threw THEN NoSchema
                 ELSE LET timeKeys == ObjectKeys(messageData.val[TimeField].m)
                      IN  [threw |-> FALSE,
                           messageType |-> messageType,
                           timeKeys |-> timeKeys,
                           dataFields |-> dataFields,
                           schema |->
                              [i \in 1..Len(dataFields) |->
                                 [name |-> dataFields[i],
                                  type |-> ColumnType(
                                     IF timeKeys = << >> THEN Undefined
                                     ELSE At(messageData.val[dataFields[i]], timeKeys[1]))]],
                           recordCount |-> Len(timeKeys),
                           isTimeSeries |-> TRUE]
        ELSE [threw |-> FALSE,
              messageType |-> messageType,
              timeKeys |-> << >>,
              dataFields |-> fields,
              schema |-> [i \in 1..Len(fields) |->
                            [name |-> fields[i],
                             type |-> ColumnType(messageData.val[fields[i]].v)]],
              recordCount |-> 1,
              isTimeSeries |-> FALSE]

\* lines 244-247: the cell for one field at one time key
CellAt(content, timeKeys, i) ==
    IF At(content, timeKeys[i]) # Undefined THEN At(content, timeKeys[i]) ELSE Null

\* the result object: its keys in order, and the array under each key
transformToArrays(messageData, schema) ==
    IF schema.isTimeSeries
    THEN [fields |-> <<TimeField>> \o schema.dataFields,
          arr |-> [f \in {TimeField} \cup {schema.dataFields[i] : i \in 1..Len(schema.dataFields)} |->
                     IF f = TimeField
                     THEN [i \in 1..Len(schema.timeKeys) |->
                              At(messageData.val[TimeField], schema.timeKeys[i])]
                     ELSE [i \in 1..Len(schema.timeKeys) |->
                              CellAt(messageData.val[f], schema.timeKeys, i)]]]
    ELSE [fields |-> schema.dataFields,
          arr |-> [f \in {schema.dataFields[i] : i \in 1..Len(schema.dataFields)} |->
                     <<messageData.val[f].v>>]]

\* lines 279-286: the most frequent array length; of equally frequent lengths
\* the reduce over the ascending keys keeps the greater
TargetLength(data) ==
    LET names == DOMAIN data.arr
        count(n) == Cardinality({f \in names : Len(data.arr[f]) = n})
        lengths == {Len(data.arr[f]) : f \in names}
    IN  CHOOSE n \in lengths :
            \A m \in lengths : count(m) < count(n) \/ (count(m) = count(n) /\ m <= n)

validateAndCleanData(transformedData) ==
    IF DOMAIN transformedData.arr = {} THEN transformedData
    ELSE LET targetLength == TargetLength(transformedData)
         IN  [transformedData EXCEPT !.arr =
                [f \in DOMAIN transformedData.arr |->
                    SubSeq(transformedData.arr[f], 1,
                           IF targetLength < Len(transformedData.arr[f])
                           THEN targetLength ELSE Len(transformedData.arr[f]))]]

fixSchemaMismatch(schema, cleanedData) ==
    IF ~schema.isTimeSeries \/ Len(cleanedData.fields) = Len(schema.dataFields) + 1
    THEN schema
    ELSE LET actualFields == SelectSeq(cleanedData.fields, LAMBDA f : f # TimeField)
         IN  [schema EXCEPT
                !.dataFields = actualFields,
                !.schema = [i \in 1..Len(actualFields) |->
                              [name |-> actualFields[i],
                               type |-> ColumnType(
                                  IF cleanedData.arr[actualFields[i]] = << >> THEN Undefined
                                  ELSE cleanedData.arr[actualFields[i]][1])]]]

(* DuckDBService: the statements sent to the engine.  A table of the store *)
(* is its columns, rows and whether its time index exists; src and         *)
(* messageType record which upload and message type the CREATE TABLE was   *)
(* issued for.                                                             *)

\* line 424: how one cell is written into the VALUES list.  A string is put
\* between apostrophes as it is; Array.join writes null and undefined as the
\* empty string.
Literal(cell) ==
    CASE cell.js = "string" -> [text |-> "quoted", body |-> cell.text, of |-> cell]
      [] cell.js = "number" -> [text |-> "bare", body |-> << >>, of |-> cell]
      [] OTHER -> [text |-> "", body |-> << >>, of |-> Null]

\* the engine reading the characters between the apostrophes of a string
\* literal: two apostrophes in a row stand for one, a single apostrophe ends
\* the literal, and what is left over after it makes the statement invalid
RECURSIVE ScanString(_, _)
ScanString(body, read) ==
    IF body = << >> THEN [ok |-> TRUE, text |-> read]
    ELSE IF Head(body) # "'" THEN ScanString(Tail(body), Append(read, Head(body)))
    ELSE IF Len(body) >= 2 /\ body[2] = "'"
        THEN ScanString(SubSeq(body, 3, Len(body)), Append(read, "'"))
    ELSE [ok |-> FALSE, text |-> read]

\* the engine reading one literal for a column: a missing literal is a syntax
\* error, a word in a REAL column a conversion error
LiteralAccepted(lit, type) ==
    /\ lit.text # ""
    /\ lit.text = "quoted" => (type # "REAL" /\ ScanString(lit.body, << >>).ok)

LiteralValue(lit, type) ==
    CASE lit.text = "quoted" -> [lit.of EXCEPT !.text = ScanString(lit.body, << >>).text]
      [] lit.text = "bare" /\ type = "TEXT" -> [lit.of EXCEPT !.js = "string"]
      [] OTHER -> lit.of

DropTable(T, name) == [x \in DOMAIN T \ {name} |-> T[x]]

\* insertData: the rows the INSERT leaves in the table, if it is accepted.
\* The static branch hands the row to exec as parameters; whether the engine
\* call made there succeeds is not decided by this code (engineOk).
insertData(table, schema, transformedData, engineOk) ==
    IF schema.isTimeSeries
    THEN LET cell(f, i) == IF i <= Len(transformedData.arr[f])
                           THEN transformedData.arr[f][i] ELSE Undefined
             names == <<TimeField>> \o schema.dataFields
             rows == [i \in 1..Len(schema.timeKeys) |->
                        [c \in 1..Len(names) |-> Literal(cell(names[c], i))]]
             accepted ==
                /\ Len(rows) > 0
                /\ Len(names) = Len(table.columns)
                /\ \A i \in 1..Len(rows) : \A c \in 1..Len(names) :
                        LiteralAccepted(rows[i][c], table.columns[c].type)
         IN  [ok |-> accepted,
              rows |-> IF accepted
                       THEN [i \in 1..Len(rows) |->
                               [c \in 1..Len(names) |->
                                   LiteralValue(rows[i][c], table.columns[c].type)]]
                       ELSE << >>]
    ELSE [ok |-> engineOk,
          rows |-> IF engineOk
                   THEN <<[c \in 1..Len(schema.dataFields) |->
                              transformedData.arr[schema.dataFields[c]][1]]>>
                   ELSE << >>]

\* createTable: DROP TABLE IF EXISTS, CREATE TABLE, CREATE INDEX, insertData;
\* the first statement that fails ends it and what was done before stays.
\* An empty column list is not accepted by CREATE TABLE.
createTable(T, messageType, schema, transformedData, src, engineOk) ==
    LET tableName == getTableName(messageType)
        dropped == DropTable(T, tableName)
        columns == IF schema.isTimeSeries
                   THEN <<[name |-> TimeField, type |-> "REAL"]>> \o schema.schema
                   ELSE schema.schema
        empty == [columns |-> columns, rows |-> << >>, index |-> schema.isTimeSeries,
                  src |-> src, messageType |-> messageType]
        created == [x \in DOMAIN dropped \cup {tableName} |->
                        IF x = tableName THEN empty ELSE dropped[x]]
        inserted == insertData(empty, schema, transformedData, engineOk)
    IN  IF Len(schema.schema) = 0
            THEN [ok |-> FALSE, tables |-> dropped, tableName |-> tableName]
        ELSE IF ~inserted.ok
            THEN [ok |-> FALSE, tables |-> created, tableName |-> tableName]
        ELSE [ok |-> TRUE,
              tables |-> [created EXCEPT ![tableName].rows = inserted.rows],
              tableName |-> tableName]

\* LogDataProcessor.processMessageType: what it returns (ok, with the fields
\* of its result) or that it threw, and the store afterwards
processMessageType(T, messageType, messageData, src, engineOk) ==
    LET schema == inferTableSchema(messageType, messageData)
    IN  IF schema.threw
        THEN [ok |-> FALSE, tables |-> T, tableName |-> << >>,
              recordCount |-> 0, fields |-> << >>]
        ELSE LET transformedData == transformToArrays(messageData, schema)
                 cleanedData == validateAndCleanData(transformedData)
                 adjustedSchema == fixSchemaMismatch(schema, cleanedData)
                 made == createTable(T, messageType, adjustedSchema, cleanedData,
                                     src, engineOk)
             IN  [ok |-> made.ok, tables |-> made.tables, tableName |-> made.tableName,
                  recordCount |-> schema.recordCount, fields |-> schema.dataFields]

\* DuckDBService.getTables / getTableSchema and what LogDataProcessor makes of them
getTables(T) == DOMAIN T

getTableSchema(T, tableName) == T[tableName].columns

getAvailableTables(T) ==
    {[tableName |-> n, messageType |-> getMessageTypeFromTable(n)] : n \in getTables(T)}

getDataSchema(T) ==
    {[messageType |-> e.messageType, tableName |-> e.tableName,
      fields |-> getTableSchema(T, e.tableName)] : e \in getAvailableTables(T)}

(* POST /chatbot/init, followed through processLogData one message type at *)
(* a time.  Uploads are taken one after the other.                         *)

IngestInit ==
    /\ now = 0
    /\ sessionCounter = 0
    /\ sessions = << >>
    /\ conversationHistory = << >>
    /\ added = << >>
    /\ turn = IdleTurn
    /\ turnNo = 0
    /\ resp = NoResp
    /\ reqs = [s \in Slots |-> IdleReq]
    /\ tables = << >>
    /\ processedTables = << >>
    /\ ingest = IdleIngest
    /\ call = NoCall
    /\ toolRun = IdleToolRun
    /\ docCache = NewDocCache
    /\ rag = NewRag
    /\ startup = NoStartup

\* initializeSession calls processLogData, whose lines 26-47 throw for logData
\* without a messages object; the route then answers 500
IngestStart ==
    /\ ingest.pc = "idle"
    /\ sessionCounter < MaxSessions
    /\ \E log \in Logs(sessionCounter + 1) :
        IF log.valid
        THEN /\ ingest' = [IdleIngest EXCEPT !.pc = "loop", !.src = sessionCounter + 1,
                                             !.log = log.messages, !.i = 1]
             /\ resp' = NoResp
        ELSE /\ ingest' = IdleIngest
             /\ resp' = [NoResp EXCEPT !.op = "init", !.status = 500]
    /\ UNCHANGED aside
    /\ UNCHANGED <<now, sessionCounter, sessions, conversationHistory, added, turn,
                   turnNo, reqs, tables, processedTables>>

\* processLogData, lines 49-83: one pass of the loop
IngestMessageType ==
    /\ ingest.pc = "loop"
    /\ ingest.i <= Len(ingest.log)
    /\ LET messageType == ingest.log[ingest.i].messageType
           messageData == ingest.log[ingest.i].data
       IN  IF messageType \in skipTypes
           THEN /\ ingest' = [ingest EXCEPT !.i = @ + 1]
                /\ UNCHANGED <<tables, processedTables>>
           ELSE \E engineOk \in BOOLEAN :
                LET result == processMessageType(tables, messageType, messageData,
                                                 ingest.src, engineOk)
                IN  /\ tables' = result.tables
                    /\ processedTables' =
                          IF result.ok
                          THEN [x \in DOMAIN processedTables \cup {messageType} |->
                                   IF x = messageType THEN result.tableName
                                   ELSE processedTables[x]]
                          ELSE processedTables
                    /\ ingest' =
                          IF result.ok
                          THEN [ingest EXCEPT !.i = @ + 1,
                                   !.processed = Append(@,
                                       [messageType |-> messageType,
                                        tableName |-> result.tableName,
                                        recordCount |-> result.recordCount,
                                        fields |-> result.fields])]
                          ELSE [ingest EXCEPT !.i = @ + 1,
                                   !.errors = Append(@, [messageType |-> messageType])]
    /\ UNCHANGED aside
    /\ UNCHANGED <<now, sessionCounter, sessions, conversationHistory, added, turn,
                   turnNo, reqs>>
    /\ resp' = NoResp

\* processLogData returns its results; initializeSession creates the session
\* and the route answers 200 with the session id
IngestReturn ==
    /\ ingest.pc = "loop"
    /\ ingest.i > Len(ingest.log)
    /\ LET id == sessionCounter + 1 IN
        /\ sessionCounter' = id
        /\ sessions' = createSession(sessions, id, now)
        /\ conversationHistory' =
               [x \in DOMAIN conversationHistory \cup {id} |->
                   IF x = id THEN <<>> ELSE conversationHistory[x]]
        /\ resp' = [NoResp EXCEPT !.op = "init", !.sid = id, !.status = 200]
    /\ ingest' = IdleIngest
    /\ UNCHANGED aside
    /\ UNCHANGED <<now, added, turn, turnNo, reqs, tables, processedTables>>

IngestNext ==
    \/ IngestStart
    \/ IngestMessageType
    \/ IngestReturn

IngestSpec == IngestInit /\ [][IngestNext]_vars

----------------------------------------------------------------------------
(* Properties of ingestion *)

\* processLogData has gone through every message type and is about to return
CallEnd == ingest.pc = "loop" /\ ingest.i > Len(ingest.log)

InProcessed(messageType) ==
    \E k \in 1..Len(ingest.processed) : ingest.processed[k].messageType = messageType

InErrors(messageType) ==
    \E k \in 1..Len(ingest.errors) : ingest.errors[k].messageType = messageType

\* the loop has just handled a message that is not passed over
JustHandled ==
    /\ ingest.pc = "loop"
    /\ ingest.i > 1
    /\ ingest.log[ingest.i - 1].messageType \notin {FILE, FNCE, PARM, POS}

IsTimeSeriesData(messageData) ==
    /\ \E i \in 1..Len(messageData.keys) : messageData.keys[i] = TimeField
    /\ \A i \in 1..Len(messageData.keys) : messageData.val[messageData.keys[i]].kind = "map"

\* C12: the tables built for a session that has been initialised are not
\* changed by any later step: each stays in the store with the same columns
\* and rows, also when another log is initialised.
C12_SessionTablesFrozen ==
    [][\A n \in DOMAIN tables :
          tables[n].src \in DOMAIN sessions =>
              (n \in DOMAIN tables' /\ tables'[n] = tables[n])]_vars

\* C13: for every session, the table list and the schema handed to the model
\* name only tables that were built from that session's own log.
C13_OwnTablesOnly ==
    \A id \in DOMAIN sessions :
        /\ \A e \in getAvailableTables(tables) : tables[e.tableName].src = id
        /\ \A e \in getDataSchema(tables) : tables[e.tableName].src = id

\* the table a message type gives when it is ingested on its own
OwnTable(e, src) ==
    processMessageType(<< >>, e.messageType, e.data, src, TRUE).tables[
        getTableName(e.messageType)]

\* C17: when the ingestion of some message type of a log failed, every other
\* message type that is not passed over is in the result's processedTables
\* and its table is the one it would have without the failing type.
C17_FailureIsolated ==
    (CallEnd /\ ingest.errors # << >>) =>
        \A j \in 1..Len(ingest.log) :
            LET e == ingest.log[j] IN
            (e.messageType \notin {FILE, FNCE, PARM, POS} /\ ~InErrors(e.messageType)) =>
                /\ InProcessed(e.messageType)
                /\ getTableName(e.messageType) \in DOMAIN tables
                /\ tables[getTableName(e.messageType)] = OwnTable(e, ingest.src)

\* C18: FILE, FNCE, PARM and POS never get a table, a processedTables entry
\* or an errors entry, and when the call ends every other message type of the
\* log has been processed (it is in processedTables or in errors).
C18_SkipListHonoured ==
    /\ \A n \in DOMAIN tables : tables[n].messageType \notin {FILE, FNCE, PARM, POS}
    /\ \A mt \in DOMAIN processedTables : mt \notin {FILE, FNCE, PARM, POS}
    /\ \A mt \in {FILE, FNCE, PARM, POS} : ~InProcessed(mt) /\ ~InErrors(mt)
    /\ CallEnd =>
          \A j \in 1..Len(ingest.log) :
              ingest.log[j].messageType \notin {FILE, FNCE, PARM, POS} =>
                  (InProcessed(ingest.log[j].messageType)
                      \/ InErrors(ingest.log[j].messageType))

C18_Witness ==
    /\ CallEnd
    /\ \E j, k \in 1..Len(ingest.log) :
        /\ ingest.log[j].messageType \in {FILE, FNCE, PARM, POS}
        /\ ingest.log[k].messageType \notin {FILE, FNCE, PARM, POS}
        /\ InProcessed(ingest.log[k].messageType)

\* C19: right after a time-series message type has been ingested, its table
\* has one row per key of the source time_boot_ms mapping, every row has a
\* cell for every column, and every cell is null or the value the source
\* holds for that column at the row's time key.
C19_RowsMirrorSource ==
    (JustHandled /\ IsTimeSeriesData(ingest.log[ingest.i - 1].data)
                 /\ InProcessed(ingest.log[ingest.i - 1].messageType)) =>
        LET e == ingest.log[ingest.i - 1]
            t == tables[getTableName(e.messageType)]
            keys == ObjectKeys(e.data.val[TimeField].m)
        IN  /\ Len(t.rows) = Len(keys)
            /\ \A r \in 1..Len(t.rows) :
                /\ Len(t.rows[r]) = Len(t.columns)
                /\ \A c \in 1..Len(t.columns) :
                    \/ t.rows[r][c] = Null
                    \/ /\ keys[r] \in DOMAIN e.data.val[t.columns[c].name].m
                       /\ t.rows[r][c] = e.data.val[t.columns[c].name].m[keys[r]]

\* C20: a time-series message with a field that has no entry at some time
\* key is ingested all the same: it is in processedTables, its table has a
\* row for every time key, and the cell of the field at the missing key is
\* null.
C20_SparseBecomesNull ==
    (JustHandled /\ IsTimeSeriesData(ingest.log[ingest.i - 1].data)
        /\ \E f \in DOMAIN ingest.log[ingest.i - 1].data.val :
              DOMAIN ingest.log[ingest.i - 1].data.val[f].m
                  # DOMAIN ingest.log[ingest.i - 1].data.val[TimeField].m) =>
        LET e == ingest.log[ingest.i - 1]
            name == getTableName(e.messageType)
            keys == ObjectKeys(e.data.val[TimeField].m)
        IN  /\ InProcessed(e.messageType)
            /\ name \in DOMAIN tables
            /\ Len(tables[name].rows) = Len(keys)
            /\ \A r \in 1..Len(tables[name].rows) :
                 \A c \in 1..Len(tables[name].columns) :
                    keys[r] \notin DOMAIN e.data.val[tables[name].columns[c].name].m
                        => tables[name].rows[r][c] = Null

\* the first sample of a field, in time-key order, that is neither missing
\* nor null
FirstNonNullSample(content, timeKeys) ==
    LET held == {i \in 1..Len(timeKeys) : At(content, timeKeys[i]) \notin {Undefined, Null}}
    IN  IF held = {} THEN Undefined
        ELSE At(content, timeKeys[CHOOSE i \in held : \A j \in held : i <= j])

\* C21: the schema inferred for a time-series message, and the table created
\* from it, give every data column the type of the field's first non-null
\* sample in time-key order (REAL for a number, TEXT otherwise), also when
\* the field has no value at the first time key.
C21_TypeFromFirstNonNull ==
    (JustHandled /\ IsTimeSeriesData(ingest.log[ingest.i - 1].data)) =>
        LET e == ingest.log[ingest.i - 1]
            s == inferTableSchema(e.messageType, e.data)
            name == getTableName(e.messageType)
        IN  /\ \A c \in 1..Len(s.schema) :
                 s.schema[c].type =
                    ColumnType(FirstNonNullSample(e.data.val[s.schema[c].name], s.timeKeys))
            /\ (name \in DOMAIN tables /\ tables[name].messageType = e.messageType
                    /\ tables[name].src = ingest.src) =>
                 \A c \in 1..Len(tables[name].columns) :
                    tables[name].columns[c].type =
                       ColumnType(FirstNonNullSample(
                           e.data.val[tables[name].columns[c].name], s.timeKeys))


----------------------------------------------------------------------------
(* Functions checked on their own                                          *)
(*                                                                         *)
(* The specifications below apply one function of the program to inputs    *)
(* drawn from a bounded set; the chat and upload state stays as it is      *)
(* after construction.                                                     *)

MaxNameLen == 3         \* characters of a generated message-type string

\* the documentation services and the start of the process
services == <<docCache, rag, startup>>

\* the state of the chat and upload paths
chatAndUpload == <<now, sessionCounter, sessions, conversationHistory, added, turn,
                   turnNo, resp, reqs, tables, processedTables, ingest>>

AfterConstruction ==
    /\ now = 0
    /\ sessionCounter = 0
    /\ sessions = << >>
    /\ conversationHistory = << >>
    /\ added = << >>
    /\ turn = IdleTurn
    /\ turnNo = 0
    /\ resp = NoResp
    /\ reqs = [s \in Slots |-> IdleReq]
    /\ tables = << >>
    /\ processedTables = << >>
    /\ ingest = IdleIngest

\* characters of message-type strings: a capital, a small letter, a digit, the
\* brackets, the underscore, and two characters of neither kind
NameChars == {"A", "z", "0", "[", "]", "_", "-", " "}

NameStrings ==
    UNION {[1..n -> NameChars] : n \in 0..MaxNameLen} \cup MessageTypes

NameInit ==
    /\ AfterConstruction
    /\ toolRun = IdleToolRun
    /\ docCache = NewDocCache
    /\ rag = NewRag
    /\ startup = NoStartup
    /\ call \in {[fn |-> "getTableName", messageType |-> s, returned |-> FALSE,
                  tableName |-> << >>] : s \in NameStrings}

GetTableNameCall ==
    /\ call.fn = "getTableName"
    /\ ~call.returned
    /\ call' = [call EXCEPT !.returned = TRUE,
                            !.tableName = getTableName(call.messageType)]
    /\ UNCHANGED <<chatAndUpload, toolRun, services>>

NameNext == GetTableNameCall

NameSpec == NameInit /\ [][NameNext]_vars

\* what one character of a message type becomes in the table name
RECURSIVE Folded(_)
Folded(str) ==
    IF str = << >> THEN << >>
    ELSE LET c == Head(str)
             small == IF \E k \in 1..26 : UpperCase[k] = c
                      THEN LowerCase[CHOOSE k \in 1..26 : UpperCase[k] = c] ELSE c
             piece == IF small = "]" THEN << >>
                      ELSE IF small \in Digits \cup {LowerCase[k] : k \in 1..26} \cup {"_"}
                      THEN <<small>>
                      ELSE <<"_">>
         IN  piece \o Folded(Tail(str))

\* C22: for every message-type string, getTableName returns the string in
\* lower case with "[" turned into "_", "]" dropped and every other
\* character outside [a-z0-9_] turned into "_", followed by "_data";
\* GPS[0] gives gps_0_data and ATT gives att_data.
C22_TableName ==
    call.returned =>
        /\ call.tableName = Folded(call.messageType) \o <<"_", "d", "a", "t", "a">>
        /\ call.messageType = GPS0 =>
              call.tableName = <<"g", "p", "s", "_", "0", "_", "d", "a", "t", "a">>
        /\ call.messageType = ATT =>
              call.tableName = <<"a", "t", "t", "_", "d", "a", "t", "a">>

C22_Witness ==
    /\ call.returned
    /\ call.messageType = GPS0
    /\ call.tableName = <<"g", "p", "s", "_", "0", "_", "d", "a", "t", "a">>


\* C23: when an upload has been gone through, getDataSchema holds for every
\* message type ingested from it an entry keyed by that message type, whose
\* tableName is the type's table and whose fields are the columns of that
\* table; and every entry names a table of the store with exactly its columns.
C23_SchemaKeyedByMessageType ==
    CallEnd =>
        /\ \A k \in 1..Len(ingest.processed) :
              \E e \in getDataSchema(tables) :
                 /\ e.messageType = ingest.processed[k].messageType
                 /\ e.tableName = getTableName(ingest.processed[k].messageType)
                 /\ e.tableName \in DOMAIN tables
                 /\ e.fields = tables[e.tableName].columns
        /\ \A e \in getDataSchema(tables) :
              /\ e.tableName \in DOMAIN tables
              /\ e.fields = tables[e.tableName].columns


----------------------------------------------------------------------------
(* ChatbotService.handleToolCalls                                          *)
(*                                                                         *)
(* ToolSpec follows one handleToolCalls call: the for loop runs one tool   *)
(* call per step, then the follow-up completion is requested from the      *)
(* provider.  The session is initialised, so LogDataProcessor.query does   *)
(* not refuse.  The arguments of a call are valid JSON holding a statement *)
(* the engine accepts ("sql"), valid JSON holding a statement the engine   *)
(* rejects ("badSql"), or not JSON at all ("malformed").                   *)

MaxToolCalls == 2       \* tool calls in one model response

CallIds == 1..MaxToolCalls

ToolCallShapes ==
    {[name |-> "queryData", arguments |-> a] : a \in {"sql", "badSql", "malformed"}}
    \cup {[name |-> n, arguments |-> "sql"] :
             n \in {"getMessageTypes", "getDataSchema", "otherTool"}}

\* message.tool_calls: a non-empty list of calls with distinct ids
ToolCallLists ==
    UNION {{[i \in 1..n |-> [id |-> ids[i], name |-> shapes[i].name,
                             arguments |-> shapes[i].arguments]] :
                ids \in {f \in [1..n -> CallIds] : \A i, j \in 1..n : i # j => f[i] # f[j]},
                shapes \in [1..n -> ToolCallShapes]} :
           n \in 1..MaxToolCalls}

\* the methods class LogDataProcessor defines
LogDataProcessorMethods ==
    {"initialize", "processLogData", "processMessageType", "getAvailableTables",
     "getMessageTypeFromTable", "query", "getDataSchema", "getSampleData", "close"}

\* JSON.stringify of a result, and of { error: message }
ResultContent(what) == [error |-> FALSE, body |-> what]
ErrorContent(message) == [error |-> TRUE, body |-> message]

\* lines 672-725: the body of the try block for one tool call, and the catch
\* block when it throws; calling a method the object does not have throws a
\* TypeError
ToolContent(toolCall) ==
    CASE toolCall.name = "queryData" ->
            IF toolCall.arguments = "malformed" THEN ErrorContent("SyntaxError")
            ELSE IF "query" \notin LogDataProcessorMethods THEN ErrorContent("TypeError")
            ELSE IF toolCall.arguments = "badSql" THEN ErrorContent("SQL error")
            ELSE ResultContent("rows")
      [] toolCall.name = "getMessageTypes" ->
            IF "getMessageTypes" \notin LogDataProcessorMethods
            THEN ErrorContent("TypeError")
            ELSE ResultContent("message types")
      [] toolCall.name = "getDataSchema" ->
            IF "getDataSchema" \notin LogDataProcessorMethods
            THEN ErrorContent("TypeError")
            ELSE ResultContent("schema")
      [] OTHER -> ErrorContent("Unknown tool")

\* lines 708-725: what one pass pushes on toolResults
ToolMessage_noCatch(toolCall) ==
    IF ToolContent(toolCall).error /\ ToolContent(toolCall).body # "Unknown tool"
    THEN << >>
    ELSE <<[tool_call_id |-> toolCall.id, role |-> "tool", name |-> toolCall.name,
            content |-> ToolContent(toolCall)]>>

ToolMessage(toolCall) ==
    <<[tool_call_id |-> toolCall.id, role |-> "tool", name |-> toolCall.name,
       content |-> ToolContent(toolCall)]>>

ToolInit ==
    /\ AfterConstruction
    /\ call = NoCall
    /\ docCache = NewDocCache
    /\ rag = NewRag
    /\ startup = NoStartup
    /\ toolRun = IdleToolRun

\* getAIResponse line 589: the model answered with tool calls
HandleToolCalls ==
    /\ toolRun.pc = "idle"
    /\ \E toolCalls \in ToolCallLists :
        toolRun' = [IdleToolRun EXCEPT !.pc = "loop", !.toolCalls = toolCalls, !.i = 1]
    /\ UNCHANGED <<chatAndUpload, call, services>>

\* one pass of the for loop
ExecuteToolCall ==
    /\ toolRun.pc = "loop"
    /\ toolRun.i <= Len(toolRun.toolCalls)
    /\ toolRun' = [toolRun EXCEPT
            !.i = @ + 1,
            !.executed = Append(@, toolRun.toolCalls[toolRun.i].id),
            !.toolResults = @ \o ToolMessage(toolRun.toolCalls[toolRun.i])]
    /\ UNCHANGED <<chatAndUpload, call, services>>

\* lines 728-752: the messages of the follow-up completion are put together
\* and the completion is requested
ContinueConversation ==
    /\ toolRun.pc = "loop"
    /\ toolRun.i > Len(toolRun.toolCalls)
    /\ toolRun' = [toolRun EXCEPT
            !.pc = "completion",
            !.messages = <<[role |-> "system"], [role |-> "user"],
                           [role |-> "assistant", tool_calls |-> toolRun.toolCalls]>>
                         \o toolRun.toolResults]
    /\ UNCHANGED <<chatAndUpload, call, services>>

\* line 759: the completion answers, or the request fails and the error
\* leaves handleToolCalls
ToolCompletionReturn ==
    /\ toolRun.pc = "completion"
    /\ \E outcome \in {"content", "threw"} :
        toolRun' = [toolRun EXCEPT !.pc = "done", !.returned = outcome]
    /\ UNCHANGED <<chatAndUpload, call, services>>

ToolNext ==
    \/ HandleToolCalls
    \/ ExecuteToolCall
    \/ ContinueConversation
    \/ ToolCompletionReturn

ToolSpec == ToolInit /\ [][ToolNext]_vars

\* a call of one of the three tools with arguments the tool accepts
WellFormedToolCall(toolCall) ==
    /\ toolCall.name \in {"queryData", "getMessageTypes", "getDataSchema"}
    /\ toolCall.arguments = "sql"

\* the tool messages the follow-up completion was sent
SentToolMessages == SubSeq(toolRun.messages, 4, Len(toolRun.messages))

\* C24: each of the three tools is served: the tool message for a
\* well-formed getMessageTypes call carries the message types, the one for
\* getDataSchema the schema, the one for queryData the rows, and none of
\* them carries an error.
C24_ThreeToolsServed ==
    toolRun.pc \in {"completion", "done"} =>
        \A i \in 1..Len(toolRun.toolCalls) :
            WellFormedToolCall(toolRun.toolCalls[i]) =>
                \E k \in 1..Len(SentToolMessages) :
                    /\ SentToolMessages[k].tool_call_id = toolRun.toolCalls[i].id
                    /\ ~SentToolMessages[k].content.error
                    /\ SentToolMessages[k].content.body =
                          CASE toolRun.toolCalls[i].name = "queryData" -> "rows"
                            [] toolRun.toolCalls[i].name = "getDataSchema" -> "schema"
                            [] OTHER -> "message types"

\* C25: a response with n tool calls has its calls executed one at a time in
\* the order returned, and the follow-up completion is sent exactly n tool
\* messages in that order, each with the tool_call_id of its call; a call
\* that fails (SQL error, malformed arguments, unknown tool) has a tool
\* message carrying an error object, and the calls after it are executed.
C25_ToolMessagesInOrder ==
    /\ toolRun.pc # "idle" =>
          \* executed so far: a prefix of the calls, in their order
          /\ Len(toolRun.executed) <= Len(toolRun.toolCalls)
          /\ \A i \in 1..Len(toolRun.executed) :
                toolRun.executed[i] = toolRun.toolCalls[i].id
    /\ toolRun.pc \in {"completion", "done"} =>
          /\ Len(toolRun.executed) = Len(toolRun.toolCalls)
          /\ Len(SentToolMessages) = Len(toolRun.toolCalls)
          /\ \A i \in 1..Len(toolRun.toolCalls) :
                /\ SentToolMessages[i].role = "tool"
                /\ SentToolMessages[i].tool_call_id = toolRun.toolCalls[i].id
                /\ (\/ toolRun.toolCalls[i].arguments \in {"badSql", "malformed"}
                    \/ toolRun.toolCalls[i].name = "otherTool")
                      => SentToolMessages[i].content.error

C25_Witness ==
    /\ toolRun.pc = "done"
    /\ Len(toolRun.toolCalls) = 2
    /\ toolRun.toolCalls[1].id = 2
    /\ toolRun.toolCalls[1].arguments = "malformed"
    /\ toolRun.toolCalls[2].name = "getDataSchema"
    /\ SentToolMessages[1].content.error
    /\ ~SentToolMessages[2].content.error


----------------------------------------------------------------------------
(* QueryValidator.findDiscrepancies                                        *)
(*                                                                         *)
(* Numbers are counted in hundredths, so that 1447.98 is 144798.  One      *)
(* pattern of the response is compared with the first row of the result.   *)

MaxCells == 1           \* cells of the first result row

Hundredths == 100

Abs(x) == IF x < 0 THEN -x ELSE x

\* claimed and actual numbers, in hundredths: 0, 1.00, 1.30, -1.00, 1000,
\* 1004, 1011, 1447.98 and 3147
Numbers == {0, 100, 130, -100, 100000, 100400, 101100, 144798, 314700}

\* a value of the first row: a number, NaN, or something that is not a number
Cells ==
    {[type |-> "number", v |-> n] : n \in Numbers}
    \cup {[type |-> "NaN", v |-> 0], [type |-> "string", v |-> 0]}

\* the query result: no rows, or a first row of cells
ActualResults ==
    {<< >>} \cup {<<row>> : row \in UNION {[1..n -> Cells] : n \in 1..MaxCells}}

\* lines 712-713 and the test of line 716; a division by zero gives Infinity,
\* or NaN when the difference is zero too, and NaN > 5 is false
Flagged(claimedValue, actualValue) ==
    LET difference == Abs(claimedValue - actualValue)
        percentOver5 == IF actualValue = 0 THEN difference > 0
                        ELSE difference * 100 > 5 * Abs(actualValue)
    IN  percentOver5 \/ difference > 10 * Hundredths

RECURSIVE DiscrepanciesOf(_, _, _)
DiscrepanciesOf(claimedValue, firstRow, i) ==
    IF i > Len(firstRow) THEN << >>
    ELSE (IF firstRow[i].type = "number" /\ Flagged(claimedValue, firstRow[i].v)
          THEN <<[claimed |-> claimedValue, actual |-> firstRow[i].v, cell |-> i]>>
          ELSE << >>)
         \o DiscrepanciesOf(claimedValue, firstRow, i + 1)

findDiscrepancies(claimedValue, actualResult) ==
    IF Len(actualResult) > 0
    THEN DiscrepanciesOf(claimedValue, actualResult[1], 1)
    ELSE << >>

DiscInit ==
    /\ AfterConstruction
    /\ toolRun = IdleToolRun
    /\ docCache = NewDocCache
    /\ rag = NewRag
    /\ startup = NoStartup
    /\ call \in {[fn |-> "findDiscrepancies", claimed |-> c, actualResult |-> r,
                  returned |-> FALSE, discrepancies |-> << >>] :
                    c \in Numbers, r \in ActualResults}

FindDiscrepanciesCall ==
    /\ call.fn = "findDiscrepancies"
    /\ ~call.returned
    /\ call' = [call EXCEPT
            !.returned = TRUE,
            !.discrepancies = findDiscrepancies(call.claimed, call.actualResult)]
    /\ UNCHANGED <<chatAndUpload, toolRun, services>>

DiscNext == FindDiscrepanciesCall

DiscSpec == DiscInit /\ [][DiscNext]_vars

\* C26: findDiscrepancies reports a claimed number against a numeric cell of
\* the first row exactly when the absolute difference is over 10 and the
\* relative error is over 5% as well; a difference over one threshold only
\* is not reported.  Quoting 1447.98 for 1447.98 passes, quoting 3147 is
\* reported.
C26_BothThresholds ==
    (call.returned /\ Len(call.actualResult) > 0) =>
        \A i \in 1..Len(call.actualResult[1]) :
            LET cell == call.actualResult[1][i]
                difference == Abs(call.claimed - cell.v)
                reported == \E k \in 1..Len(call.discrepancies) :
                                call.discrepancies[k].cell = i
            IN  cell.type = "number" =>
                   (reported <=>
                      /\ difference > 10 * Hundredths
                      /\ difference * 100 > 5 * Abs(cell.v))


----------------------------------------------------------------------------
(* DocCacheService                                                         *)
(*                                                                         *)
(* The cache is the object in memory together with the file it is loaded   *)
(* from and saved to.  Whether a call of the file system succeeds is not   *)
(* decided by the program: every method takes the outcomes of the calls it *)
(* may make (env).  A page is identified by its text, "A" or "B"; SHA-256  *)
(* digests of different texts differ.  What JSON.stringify writes of an    *)
(* entry (strings, finite numbers, arrays of them) JSON.parse reads back   *)
(* unchanged.  CacheSpec calls the methods one after the other, each call  *)
(* running to its end, and lets the clock advance between them.  The clock *)
(* of this part counts seconds.                                            *)

MaxCacheTicks == 2      \* clock advances in CacheSpec

ExpirySec == 30 * 24 * 60 * 60    \* getCachedDocs: thirty days, in seconds

DocsUrl == "https://ardupilot.org/plane/docs/logmessages.html"
Urls == {DocsUrl, "https://ardupilot.org/copter"}
Contents == {"A", "B"}

FsOutcomes == [mkdir : BOOLEAN, read : BOOLEAN, write : BOOLEAN]

generateContentHash(content) == <<"sha256", content>>

NoEntry ==
    [content |-> "", embeddings |-> << >>, contentHash |-> <<"sha256", "">>,
     lastUpdated |-> 0]

\* loadCache: the outcome of readFile and JSON.parse
loadCache(dc, env) ==
    IF dc.file.state = "absent"
    THEN [threw |-> FALSE, dc |-> [dc EXCEPT !.loaded = TRUE, !.docs = << >>]]
    ELSE IF dc.file.state = "json" /\ env.read
    THEN [threw |-> FALSE, dc |-> [dc EXCEPT !.loaded = TRUE, !.docs = dc.file.docs]]
    ELSE [threw |-> TRUE, dc |-> dc]

\* DocCacheService.initialize; a failure leaves an empty cache and
\* isInitialized as it was
DocCacheInitialize(dc, env) ==
    IF env.mkdir /\ ~loadCache(dc, env).threw
    THEN [loadCache(dc, env).dc EXCEPT !.isInitialized = TRUE]
    ELSE [dc EXCEPT !.loaded = TRUE, !.docs = << >>]

saveCache(dc, env) ==
    IF env.write THEN [dc EXCEPT !.file = [state |-> "json", docs |-> dc.docs]]
    ELSE dc

Initialized(dc, env) == IF dc.isInitialized THEN dc ELSE DocCacheInitialize(dc, env)

\* getCachedDocs: the cache afterwards, and the entry returned, if any
getCachedDocs(dc, url, env, t) ==
    LET d == Initialized(dc, env)
        cached == IF url \in DOMAIN d.docs THEN d.docs[url] ELSE NoEntry
        thirtyDaysAgo == t - ExpirySec
    IN  IF url \notin DOMAIN d.docs THEN [dc |-> d, found |-> FALSE, cached |-> NoEntry]
        ELSE IF cached.lastUpdated < thirtyDaysAgo
        THEN [dc |-> d, found |-> FALSE, cached |-> NoEntry]
        ELSE [dc |-> d, found |-> TRUE, cached |-> cached]

updateDocs(dc, url, content, embeddings, env, t) ==
    LET d == Initialized(dc, env)
        entry == [content |-> content, embeddings |-> embeddings,
                  contentHash |-> generateContentHash(content), lastUpdated |-> t]
    IN  saveCache([d EXCEPT !.docs = [u \in DOMAIN d.docs \cup {url} |->
                                         IF u = url THEN entry ELSE d.docs[u]]], env)

needsUpdate(dc, url, freshContent, env, t) ==
    LET got == getCachedDocs(dc, url, env, t)
    IN  [dc |-> got.dc,
         result |-> IF ~got.found THEN TRUE
                    ELSE generateContentHash(freshContent) # got.cached.contentHash]

getEmbeddings(dc, url, env, t) ==
    LET got == getCachedDocs(dc, url, env, t)
    IN  [dc |-> got.dc, found |-> got.found, embeddings |-> got.cached.embeddings]

\* clearCache: unlink fails when there is no file
clearCache(dc, env) ==
    IF dc.file.state # "absent" /\ env.write
    THEN [dc EXCEPT !.file = [state |-> "absent", docs |-> << >>],
                    !.loaded = TRUE, !.docs = << >>]
    ELSE dc

\* the embeddings handed to updateDocs for a page
EmbeddingsOf(content) ==
    <<[content |-> content, embedding |-> <<"vector", content>>, type |-> "p"]>>

FirstCall ==
    [fn |-> "none", url |-> "", content |-> "", result |-> FALSE, at |-> 0, turn |-> 0]

\* the record of the call made last; turn changes with every call
Called(fn, url, content, result) ==
    [fn |-> fn, url |-> url, content |-> content, result |-> result, at |-> now,
     turn |-> 1 - call.turn]

CacheInit ==
    /\ AfterConstruction
    /\ toolRun = IdleToolRun
    /\ rag = NewRag
    /\ startup = NoStartup
    /\ call = FirstCall
    /\ docCache \in {[NewDocCache EXCEPT !.file.state = s] : s \in {"absent", "corrupt"}}

cacheRest == <<sessionCounter, sessions, conversationHistory, added, turn, turnNo, resp,
               reqs, tables, processedTables, ingest, toolRun, rag, startup>>

CacheTick ==
    /\ now < MaxCacheTicks * ExpirySec
    /\ now' = now + ExpirySec
    /\ UNCHANGED <<cacheRest, docCache, call>>

CacheInitializeCall ==
    /\ \E env \in FsOutcomes :
        /\ docCache' = DocCacheInitialize(docCache, env)
        /\ call' = Called("initialize", "", "", FALSE)
    /\ UNCHANGED <<cacheRest, now>>

NeedsUpdateCall ==
    /\ \E url \in Urls, content \in Contents, env \in FsOutcomes :
        LET r == needsUpdate(docCache, url, content, env, now)
        IN  /\ docCache' = r.dc
            /\ call' = Called("needsUpdate", url, content, r.result)
    /\ UNCHANGED <<cacheRest, now>>

UpdateDocsCall ==
    /\ \E url \in Urls, content \in Contents, env \in FsOutcomes :
        /\ docCache' = updateDocs(docCache, url, content, EmbeddingsOf(content), env, now)
        /\ call' = Called("updateDocs", url, content, FALSE)
    /\ UNCHANGED <<cacheRest, now>>

ClearCacheCall ==
    /\ \E env \in FsOutcomes :
        /\ docCache' = clearCache(docCache, env)
        /\ call' = Called("clearCache", "", "", FALSE)
    /\ UNCHANGED <<cacheRest, now>>

CacheNext ==
    \/ CacheTick
    \/ CacheInitializeCall
    \/ NeedsUpdateCall
    \/ UpdateDocsCall
    \/ ClearCacheCall

CacheSpec == CacheInit /\ [][CacheNext]_vars

\* the entries the cache holds: those in memory, or those of the file when
\* nothing has been loaded yet
Held(dc) ==
    IF dc.loaded THEN dc.docs
    ELSE IF dc.file.state = "json" THEN dc.file.docs ELSE << >>

\* C27: needsUpdate(url, content) is false exactly when the cache holds an
\* entry for url that is less than thirty days old and whose content hash is
\* the hash of content; and right after updateDocs(url, content, ...) it is
\* false.
C27_NeedsUpdate ==
    [][(call'.turn # call.turn /\ call'.fn = "needsUpdate") =>
          /\ ~call'.result <=>
                /\ call'.url \in DOMAIN Held(docCache)
                /\ now - Held(docCache)[call'.url].lastUpdated < ExpirySec
                /\ Held(docCache)[call'.url].contentHash
                      = generateContentHash(call'.content)
          /\ (call.fn = "updateDocs" /\ call.url = call'.url
                  /\ call.content = call'.content /\ call.at = now)
                => ~call'.result]_vars


----------------------------------------------------------------------------
(* RAGService, and the start of the process                                *)
(*                                                                         *)
(* routes/chatbot.js calls chatbotService.initialize() when the module is  *)
(* loaded and does not wait for it; server.js then listens.  ServiceSpec   *)
(* starts there: the initialisation is at its first await and requests are *)
(* let in.  RAGService.initialize is run by three callers, each followed   *)
(* from one await to the next.  The page fetched is "A" or "B" or the      *)
(* fetch fails; a request for an embedding succeeds or fails.  The clock   *)
(* stands still.                                                           *)

MaxRefreshes == 1       \* POST /chatbot/docs/refresh requests
MaxSearches == 1        \* chat requests that reach searchRelevantDocs
MaxInitRequests == 1    \* POST /chatbot/init requests

Chunk(content) == [content |-> content, type |-> "documentation"]

\* chunkContent of what cheerio extracts from a page
chunkContent(content) ==
    IF content = "A" THEN <<Chunk("A1"), Chunk("A2")>> ELSE <<Chunk("B1")>>

getFallbackDocs == <<Chunk("F1")>>

\* the embedding the provider returns for a text
Vector(content) == <<"vector", content>>

\* Map.prototype.set on a map kept in insertion order, and the values
MapSet(m, k, v) ==
    IF \E j \in 1..Len(m) : m[j].key = k
    THEN [j \in 1..Len(m) |-> IF m[j].key = k THEN [key |-> k, value |-> v] ELSE m[j]]
    ELSE Append(m, [key |-> k, value |-> v])

MapValues(m) == [j \in 1..Len(m) |-> m[j].value]

InInitialize(run) == run.pc \in {"docInit", "get", "needs", "getEmb", "embed", "update"}

\* initialize, lines 31-32: createEmbeddings has returned
FinishInitialize(r, p) ==
    [r EXCEPT !.isInitialized = TRUE,
              !.runs[p].finished = TRUE,
              !.runs[p].indexAtEnd = MapValues(r.embeddingsCache),
              !.runs[p].outcome = IF p = "refresh" THEN "ok" ELSE @,
              !.runs[p].pc = CASE p = "start" -> "lpInit"
                               [] p = "refresh" -> "done"
                               [] OTHER -> "query"]

\* initialize, lines 34-36: the error is thrown on to the caller
ThrowInitialize(r, p) ==
    [r EXCEPT !.runs[p].pc = "done", !.runs[p].outcome = "threw"]

\* createEmbeddings, lines 325-352: the head of the for loop, and what
\* follows the loop
EmbeddingLoop(r, p) ==
    IF r.runs[p].i < Len(r.documentChunks)
    THEN [r EXCEPT !.runs[p].pc = "embed",
                   !.runs[p].chunk = r.documentChunks[r.runs[p].i + 1],
                   !.runs[p].requested = @ + 1]
    ELSE IF r.freshContent # "none"
    THEN [r EXCEPT !.runs[p].pc = "update",
                   !.runs[p].fresh = r.freshContent,
                   !.runs[p].embeddingsArray = MapValues(r.embeddingsCache)]
    ELSE FinishInitialize(r, p)

ServiceInit ==
    /\ AfterConstruction
    /\ call = NoCall
    /\ toolRun = IdleToolRun
    /\ docCache = NewDocCache
    /\ rag = [NewRag EXCEPT !.runs["start"].pc = "docInit", !.runs["start"].calls = 1,
                            !.runs["start"].sawInitialized = FALSE]
    /\ startup = NoStartup

serviceRest == <<chatAndUpload, call, toolRun>>

\* initialize line 24: docCache.initialize() has returned; axios.get is awaited
RagDocInitReturn(p) ==
    /\ rag.runs[p].pc = "docInit"
    /\ \E env \in FsOutcomes : docCache' = DocCacheInitialize(docCache, env)
    /\ rag' = [rag EXCEPT !.runs[p].pc = "get"]
    /\ UNCHANGED <<serviceRest, startup>>

\* fetchArduPilotDocs lines 46-50 and 106-111: the page arrived and
\* needsUpdate is awaited, or the fetch failed and createEmbeddings awaits
\* getEmbeddings
RagGetReturn(p) ==
    /\ rag.runs[p].pc = "get"
    /\ \E outcome \in Contents \cup {"failed"} :
        rag' = IF outcome = "failed"
               THEN [rag EXCEPT !.documentChunks = getFallbackDocs,
                                !.runs[p].pc = "getEmb"]
               ELSE [rag EXCEPT !.runs[p].fresh = outcome, !.runs[p].pc = "needs"]
    /\ UNCHANGED <<serviceRest, startup, docCache>>

\* fetchArduPilotDocs lines 50-105: needsUpdate has answered
RagNeedsReturn(p) ==
    /\ rag.runs[p].pc = "needs"
    /\ \E env \in FsOutcomes :
        LET fresh == rag.runs[p].fresh
            n == needsUpdate(docCache, DocsUrl, fresh, env, now)
            cached == getCachedDocs(docCache, DocsUrl, env, now).cached
        IN  /\ docCache' = n.dc
            /\ rag' = IF n.result
                      THEN [rag EXCEPT !.documentChunks = chunkContent(fresh),
                                       !.freshContent = fresh,
                                       !.runs[p].pc = "getEmb"]
                      ELSE [rag EXCEPT !.runs[p].unchanged = TRUE,
                                       !.runs[p].cachedThen = cached.embeddings,
                                       !.runs[p].pc = "getEmb"]
    /\ UNCHANGED <<serviceRest, startup>>

\* createEmbeddings lines 294-323: getEmbeddings has answered; the index is
\* loaded from the cache, or the first embedding is requested
RagGetEmbReturn(p) ==
    /\ rag.runs[p].pc = "getEmb"
    /\ \E env \in FsOutcomes :
        LET g == getEmbeddings(docCache, DocsUrl, env, now)
        IN  /\ docCache' = g.dc
            /\ rag' =
                 IF g.found /\ rag.freshContent = "none"
                 THEN FinishInitialize(
                        [rag EXCEPT
                           !.embeddingsCache =
                               [j \in 1..Len(g.embeddings) |->
                                   [key |-> j - 1, value |-> g.embeddings[j]]],
                           !.documentChunks =
                               [j \in 1..Len(g.embeddings) |->
                                   [content |-> g.embeddings[j].content,
                                    type |-> g.embeddings[j].type]]], p)
                 ELSE EmbeddingLoop([rag EXCEPT !.runs[p].i = 0], p)
    /\ UNCHANGED <<serviceRest, startup>>

\* createEmbeddings lines 332-342: the provider answered the request for one
\* chunk, or the request failed
RagEmbedReturn(p) ==
    /\ rag.runs[p].pc = "embed"
    /\ \E ok \in BOOLEAN :
        rag' = IF ok
               THEN EmbeddingLoop(
                      [rag EXCEPT
                         !.embeddingsCache =
                             MapSet(@, rag.runs[p].i,
                                    [content |-> rag.runs[p].chunk.content,
                                     embedding |-> Vector(rag.runs[p].chunk.content),
                                     type |-> rag.runs[p].chunk.type]),
                         !.runs[p].i = @ + 1], p)
               ELSE ThrowInitialize(rag, p)
    /\ UNCHANGED <<serviceRest, startup, docCache>>

\* createEmbeddings lines 348-352: updateDocs has returned
RagUpdateReturn(p) ==
    /\ rag.runs[p].pc = "update"
    /\ \E env \in FsOutcomes :
        docCache' = updateDocs(docCache, DocsUrl, rag.runs[p].fresh,
                               rag.runs[p].embeddingsArray, env, now)
    /\ rag' = FinishInitialize([rag EXCEPT !.freshContent = "none"], p)
    /\ UNCHANGED <<serviceRest, startup>>

\* ChatbotService.initialize line 24: logDataProcessor.initialize() has
\* returned, or it threw and the error was logged
ProcessorInitializeReturn ==
    /\ rag.runs["start"].pc = "lpInit"
    /\ \E ok \in BOOLEAN :
        startup' = [startup EXCEPT !.processorInitialized = ok]
    /\ rag' = [rag EXCEPT !.runs["start"].pc = "done", !.runs["start"].outcome = "ok"]
    /\ UNCHANGED <<serviceRest, docCache>>

\* POST /docs/refresh -> refreshDocumentation, up to the first await of
\* initialize
RefreshRequest ==
    /\ rag.runs["refresh"].pc \in {"idle", "done"}
    /\ rag.runs["refresh"].calls < MaxRefreshes
    /\ rag' = [rag EXCEPT
                 !.isInitialized = FALSE,
                 !.documentChunks = << >>,
                 !.embeddingsCache = << >>,
                 !.runs["refresh"] =
                     [IdleRun EXCEPT !.pc = "docInit",
                                     !.calls = rag.runs["refresh"].calls + 1]]
    /\ UNCHANGED <<serviceRest, startup, docCache>>

\* processMessage line 83 -> searchRelevantDocs, up to its first await; a chat
\* request gets here only with a session
SearchRequest ==
    /\ startup.sessionMade
    /\ rag.runs["search"].pc \in {"idle", "done"}
    /\ rag.runs["search"].calls < MaxSearches
    /\ rag' = [rag EXCEPT
                 !.runs["search"] =
                     [IdleRun EXCEPT
                         !.calls = rag.runs["search"].calls + 1,
                         !.sawInitialized = rag.isInitialized,
                         !.pc = IF rag.isInitialized THEN "query" ELSE "docInit"]]
    /\ UNCHANGED <<serviceRest, startup, docCache>>

\* searchRelevantDocs lines 366-393: the query embedding arrived and the index
\* is gone through, or the request failed and [] is returned
SearchQueryReturn ==
    /\ rag.runs["search"].pc = "query"
    /\ \E ok \in BOOLEAN :
        rag' = [rag EXCEPT
                  !.runs["search"].pc = "done",
                  !.runs["search"].outcome = IF ok THEN "results" ELSE "failed",
                  !.runs["search"].seen =
                      IF ok THEN {rag.embeddingsCache[j].value :
                                     j \in 1..Len(rag.embeddingsCache)}
                      ELSE {}]
    /\ UNCHANGED <<serviceRest, startup, docCache>>

\* POST /init -> initializeSession -> processLogData lines 26-29
InitRequest ==
    /\ startup.requests < MaxInitRequests
    /\ startup' = [startup EXCEPT
                     !.requests = @ + 1,
                     !.saw = IF startup.processorInitialized THEN "initialized"
                             ELSE "uninitialized",
                     !.sessionMade = @ \/ startup.processorInitialized]
    /\ UNCHANGED <<serviceRest, rag, docCache>>

ServiceNext ==
    \/ \E p \in RagProcs :
        \/ RagDocInitReturn(p)
        \/ RagGetReturn(p)
        \/ RagNeedsReturn(p)
        \/ RagGetEmbReturn(p)
        \/ RagEmbedReturn(p)
        \/ RagUpdateReturn(p)
    \/ ProcessorInitializeReturn
    \/ RefreshRequest
    \/ SearchRequest
    \/ SearchQueryReturn
    \/ InitRequest

ServiceSpec == ServiceInit /\ [][ServiceNext]_vars


\* C28: when a run of initialize (at start, for a refresh or for a search)
\* found the fetched page to have the hash of the unexpired cache entry and
\* has finished, the embeddings in memory at that moment are the embeddings
\* of that cache entry, in the same order, and the run has requested no
\* chunk embedding.
C28_UnchangedReusesCache ==
    \A p \in RagProcs :
        (rag.runs[p].finished /\ rag.runs[p].unchanged) =>
            /\ rag.runs[p].requested = 0
            /\ rag.runs[p].indexAtEnd = rag.runs[p].cachedThen

\* C29: no /chatbot/init request meets a LogDataProcessor that has not been
\* initialised, and no chat request meets a Doc Index that has not been
\* initialised (short of a refresh having been asked for).
C29_InitializedBeforeRequests ==
    /\ startup.saw # "uninitialized"
    /\ (rag.runs["search"].calls > 0 /\ rag.runs["refresh"].calls = 0)
          => rag.runs["search"].sawInitialized

\* an index that holds every chunk of one page, or of the fallback documents
CompleteIndexes ==
    {{[content |-> chunks[j].content, embedding |-> Vector(chunks[j].content),
       type |-> chunks[j].type] : j \in 1..Len(chunks)} :
        chunks \in {chunkContent(c) : c \in Contents} \cup {getFallbackDocs}}

\* C30: while the initialisation started by refreshDocumentation runs, no
\* other initialisation runs; and a search that returns results has gone
\* through a complete index, never an empty or partly embedded one.
C30_RefreshExclusive ==
    /\ InInitialize(rag.runs["refresh"]) =>
          \A p \in RagProcs \ {"refresh"} : ~InInitialize(rag.runs[p])
    /\ rag.runs["search"].outcome = "results" =>
          rag.runs["search"].seen \in CompleteIndexes

----------------------------------------------------------------------------
(* Input errors of the routes *)

\* C31: an init request that is turned down (its logData has no messages
\* object) is answered with a 4xx status, and it creates no session and
\* writes no history.
C31_InputErrorsAre4xx ==
    [][(resp'.op = "init" /\ resp'.status # 200) =>
          /\ resp'.status \in 400..499
          /\ UNCHANGED <<sessionCounter, sessions, conversationHistory>>]_vars

----------------------------------------------------------------------------
(* Termination of processMessage *)

\* the steps of a processMessage call that wait for an external call: the
\* detector, the document search, a chat completion, the SQL engine, the
\* classifier
ProcessMessageStep ==
    \/ InjectionReturn
    \/ ContextReturn
    \/ AIReturn
    \/ ToolFollowUpReturn
    \/ ValidateReturn
    \/ ClassifyReturn
    \/ RevalidateReturn

\* Spec, with every external call of a turn eventually returning or failing
LiveSpec == Init /\ [][Next]_vars /\ WF_vars(ProcessMessageStep)

\* the ways processMessage returns
TerminalOutcome ==
    /\ turn.pc = "done"
    /\ turn.result.kind \in {"notfound", "refusal", "emit", "error"}

\* C32: every processMessage call that has started ends in a terminal
\* outcome (session not found, refusal, emitted answer, error answer), as long
\* as each external call it waits for returns or fails.
C32_ProcessMessageTerminates == (turn.pc # "idle") ~> TerminalOutcome

\* a turn that went through both answer corrections and the query correction
\* and then returned its answer
C32_Witness ==
    /\ TerminalOutcome
    /\ turn.result.kind = "emit"
    /\ turn.result.correctionAttempts = 2
    /\ turn.qcCalls = 1

----------------------------------------------------------------------------
(* SQL handed to the store by the queryData tool and by the validator      *)
(*                                                                         *)
(* LogDataProcessor.query passes its text to DuckDBService.query, which    *)
(* gives it to db.all of the in-memory database ingestion writes to.  The  *)
(* statements are followed by their kind and the table they name.          *)

MaxQueryCalls == 1      \* statements handed to query

ScratchTable == <<"s", "c", "r", "a", "t", "c", "h">>

StatementKinds == {"SELECT", "DROP", "DELETE", "CREATE", "invalid"}

\* the SQL texts: a statement on a table of the store or on another name
Statements(T) ==
    [kind : StatementKinds, table : DOMAIN T \cup {ScratchTable}]

\* DuckDBService.query: db.all runs the statement whatever its kind; a
\* statement the engine turns down rejects the promise
query(T, sql) ==
    CASE sql.kind = "SELECT" ->
            IF sql.table \in DOMAIN T
            THEN [error |-> FALSE, tables |-> T]
            ELSE [error |-> TRUE, tables |-> T]
      [] sql.kind = "DROP" ->
            IF sql.table \in DOMAIN T
            THEN [error |-> FALSE, tables |-> DropTable(T, sql.table)]
            ELSE [error |-> TRUE, tables |-> T]
      [] sql.kind = "DELETE" ->
            IF sql.table \in DOMAIN T
            THEN [error |-> FALSE, tables |-> [T EXCEPT ![sql.table].rows = << >>]]
            ELSE [error |-> TRUE, tables |-> T]
      [] sql.kind = "CREATE" ->
            \* CREATE TABLE scratch AS SELECT * FROM <table>
            IF sql.table \in DOMAIN T /\ ScratchTable \notin DOMAIN T
            THEN [error |-> FALSE,
                  tables |-> [x \in DOMAIN T \cup {ScratchTable} |->
                                 IF x = ScratchTable THEN T[sql.table] ELSE T[x]]]
            ELSE [error |-> TRUE, tables |-> T]
      [] OTHER -> [error |-> TRUE, tables |-> T]

\* QueryValidator.extractSQLQueries: the texts taken from a response start
\* with SELECT and end after the table name or the clauses of a SELECT
extractSQLQueries(T) == {sql \in Statements(T) : sql.kind = "SELECT"}

NoStatement == [fn |-> "query", by |-> "none", kind |-> "none", error |-> FALSE, n |-> 0]

QueryInit ==
    /\ AfterConstruction
    /\ call = NoStatement
    /\ toolRun = IdleToolRun
    /\ docCache = NewDocCache
    /\ rag = NewRag
    /\ startup = NoStartup

\* handleToolCalls, case 'queryData': the sql argument goes to query
QueryDataCall ==
    /\ sessionCounter > 0
    /\ call.n < MaxQueryCalls
    /\ \E sql \in Statements(tables) :
        /\ tables' = query(tables, sql).tables
        /\ call' = [fn |-> "query", by |-> "queryData", kind |-> sql.kind,
                    error |-> query(tables, sql).error, n |-> call.n + 1]
    /\ UNCHANGED <<now, sessionCounter, sessions, conversationHistory, added, turn,
                   turnNo, resp, reqs, processedTables, ingest, toolRun, services>>

\* QueryValidator.executeQuery: a query quoted in the response is run again
ValidatorQueryCall ==
    /\ sessionCounter > 0
    /\ call.n < MaxQueryCalls
    /\ \E sql \in extractSQLQueries(tables) :
        /\ tables' = query(tables, sql).tables
        /\ call' = [fn |-> "query", by |-> "validator", kind |-> sql.kind,
                    error |-> query(tables, sql).error, n |-> call.n + 1]
    /\ UNCHANGED <<now, sessionCounter, sessions, conversationHistory, added, turn,
                   turnNo, resp, reqs, processedTables, ingest, toolRun, services>>

QueryNext ==
    \/ IngestStart
    \/ IngestMessageType
    \/ IngestReturn
    \/ QueryDataCall
    \/ ValidatorQueryCall

QuerySpec == QueryInit /\ [][QueryNext]_vars

\* C33: a statement handed to query by the queryData tool or by the
\* validator leaves the store as it was: the same tables with the same
\* columns and rows, whether the statement is a read, is rejected, or is a
\* DROP, DELETE or CREATE.
C33_QueriesReadOnly ==
    [][call'.n > call.n => tables' = tables]_vars

----------------------------------------------------------------------------
(* AnswerValidator.validateAnswerQuality on its own                        *)

Absent == "absent"

\* what the classifier's completion can hold: JSON in the new format (outcome,
\* isValid), in the old one (responseType, isValidAnswer), in both or with
\* fields left out, or text that is no JSON (the call then throws, as it does
\* when the request fails)
ClassifierJson ==
    [ok : {TRUE},
     outcome : Outcomes \cup {Absent}, responseType : Outcomes \cup {Absent},
     isValid : {"true", "false", Absent}, isValidAnswer : {"true", "false", Absent}]
    \cup {[ok |-> FALSE, outcome |-> Absent, responseType |-> Absent,
           isValid |-> Absent, isValidAnswer |-> Absent]}

\* part_001 lines 82-83: outcome || responseType and isValid || isValidAnswer
\* || false
ReadClassifierJson(json) ==
    [ok |-> json.ok,
     responseType |-> IF json.outcome # Absent THEN json.outcome ELSE json.responseType,
     isValidAnswer |-> json.isValid = "true" \/ json.isValidAnswer = "true"]

ValidationInit ==
    /\ AfterConstruction
    /\ toolRun = IdleToolRun
    /\ docCache = NewDocCache
    /\ rag = NewRag
    /\ startup = NoStartup
    /\ call \in {[fn |-> "validateAnswerQuality", json |-> j, returned |-> FALSE,
                  result |-> NoValidation] : j \in ClassifierJson}

ValidateAnswerQualityCall ==
    /\ call.fn = "validateAnswerQuality"
    /\ ~call.returned
    /\ call' = [call EXCEPT !.returned = TRUE,
                            !.result = validateAnswerQuality(ReadClassifierJson(call.json))]
    /\ UNCHANGED <<chatAndUpload, toolRun, services>>

ValidationNext == ValidateAnswerQualityCall

ValidationSpec == ValidationInit /\ [][ValidationNext]_vars

\* C34: a result returned by validateAnswerQuality is valid only when its
\* outcome is ANSWER or CLARIFICATION; with REASONING, VAGUE, an unknown or
\* no outcome, and when the classifier call fails, the result is not valid.
C34_ValidOnlyAnswerOrClarification ==
    (call.fn = "validateAnswerQuality" /\ call.returned /\ call.result.isValid)
        => call.result.outcome \in {"ANSWER", "CLARIFICATION"}

----------------------------------------------------------------------------
(* validateSession and the session's log *)

\* C35: validateSession on a live session that has not expired changes only
\* the session's access time: the session keeps the logData object it was
\* created with and its creation time, and every other session stays as it
\* was.
C35_ValidateKeepsLogData ==
    [][(resp'.op = "validate" /\ resp'.valid) =>
          /\ DOMAIN sessions' = DOMAIN sessions
          /\ sessions'[resp'.sid].logData = sessions[resp'.sid].logData
          /\ sessions'[resp'.sid].createdAt = sessions[resp'.sid].createdAt
          /\ \A id \in DOMAIN sessions \ {resp'.sid} : sessions'[id] = sessions[id]]_vars

----------------------------------------------------------------------------
(* Table names within one processLogData call *)

\* C36: when a processLogData call ends, the message types it processed
\* have pairwise different table names, and the table of each of them is in
\* the store and holds that message type's data from this log.
C36_OneTablePerMessageType ==
    CallEnd =>
        /\ \A j, k \in 1..Len(ingest.processed) :
              j # k => ingest.processed[j].tableName # ingest.processed[k].tableName
        /\ \A k \in 1..Len(ingest.processed) :
              LET p == ingest.processed[k] IN
              /\ p.tableName \in DOMAIN tables
              /\ tables[p.tableName].messageType = p.messageType
              /\ tables[p.tableName].src = ingest.src

----------------------------------------------------------------------------
(* What a failed ingestion leaves behind *)

\* C37: the pass of processLogData that puts a message type into errors
\* leaves the store as it was before the pass: no table is left for the
\* message type if it had none, and a table it had from an earlier ingest is
\* still there with its columns and rows.
C37_FailedIngestLeavesStore ==
    [][(ingest.pc = "loop" /\ Len(ingest'.errors) > Len(ingest.errors))
          => tables' = tables]_vars

----------------------------------------------------------------------------
(* The history map and the session registry *)

\* C38: every id that has an entry in the conversation-history map is a
\* session of the registry; a session that validateSession removes has no
\* history entry afterwards.
C38_HistoryOnlyForLiveSessions ==
    DOMAIN conversationHistory \subseteq DOMAIN sessions

----------------------------------------------------------------------------
(* The injection gate when the detector fails *)

=============================================================================
